---- MODULE Spec2Model ----
(***************************************************************************)
(* community.mysql: user / privilege reconciliation (module_utils/user.py) *)
(* and dialect resolution (module_utils/command_resolver.py).              *)
(*                                                                         *)
(* The database server is the environment: it is modelled by the accounts  *)
(* of the one user name being managed (one account per host), and by what  *)
(* each statement the code sends does to them.  Every statement user.py    *)
(* sends with cursor.execute is appended to a log, reads included; the     *)
(* version probe behind impl.use_old_user_mgmt is the server's flag old.   *)
(***************************************************************************)
EXTENDS Integers, Sequences, FiniteSets, TLC

VARIABLES server, last, resolved, call, limits, roles

vars == <<server, last, resolved, call, limits, roles>>

\* Python's None.
None == "None"

--------------------------------------------------------------------------
(* Values the model draws from *)

GLOBAL == "*.*"

\* The quoted scope of database db1 (the identifier quote is left out of the name).
DB1 == "db1.*"

\* The order in which SHOW GRANTS lists an account's scopes.
ScopeSeq == <<GLOBAL, DB1>>

Scopes == {ScopeSeq[i] : i \in 1..Len(ScopeSeq)}

\* The privileges the server knows at a scope; holding all of them is shown
\* by the server as ALL PRIVILEGES.
RealPrivs == {"SELECT", "INSERT"}

\* The hosts an account of the user may exist for, in the order in which
\* SELECT Host FROM mysql.user returns them.
HostSeq == <<"localhost", "%">>

HostSet == {HostSeq[i] : i \in 1..Len(HostSeq)}

NativePlugin == "mysql_native_password"

OtherPlugin == "sha256_password"

\* The SQL PASSWORD() / CONCAT('*', UCASE(SHA1(UNHEX(SHA1(p))))) of a string.
HashOf(p) ==
    CASE p = "a" -> "*A"
      [] p = "b" -> "*B"
      [] OTHER -> "*X"

--------------------------------------------------------------------------
(* Statements *)

\* One statement sent with cursor.execute: the kind of statement, the account
\* (host) it names, and for privilege statements the scope, the privilege
\* list of the statement text and whether WITH GRANT OPTION ends it; req is
\* the REQUIRE clause (None: no clause), plugin and auth the IDENTIFIED clause.
\* by names the helper whose cursor.execute sent it, "" for a statement sent
\* by user_add, user_mod or user_delete themselves.
St(op, host, scope, privs, wgo, req, plugin, auth) ==
    [op |-> op, host |-> host, scope |-> scope, privs |-> privs,
     wgo |-> wgo, req |-> req, plugin |-> plugin, auth |-> auth, by |-> ""]

Read(op, host) == St(op, host, "", {}, FALSE, None, "", "")

ReadOps == {"SELECT", "SHOW GRANTS", "SHOW CREATE USER"}

MutatingOps ==
    {"CREATE USER", "ALTER USER IDENTIFIED", "ALTER USER REQUIRE", "SET PASSWORD",
     "UPDATE mysql.user", "GRANT", "REVOKE", "REVOKE GRANT OPTION",
     "DROP USER IF EXISTS", "DROP USER", "FLUSH PRIVILEGES"}

IsMutating(st) == st.op \in MutatingOps

--------------------------------------------------------------------------
(* The server *)

NoAcct ==
    [exists |-> FALSE, priv |-> [s \in Scopes |-> {}], wgo |-> {},
     auth |-> "", plugin |-> NativePlugin, tls |-> None]

\* The privileges a privilege list of a statement stands for: ALL is every
\* privilege of the scope, USAGE stands for no privileges.
Expand(privs) ==
    IF "ALL" \in privs \/ "ALL PRIVILEGES" \in privs
    THEN RealPrivs
    ELSE privs \cap RealPrivs

\* The privilege list SHOW GRANTS prints for a set of held privileges.
Display(held) ==
    IF held = RealPrivs THEN {"ALL PRIVILEGES"}
    ELSE IF held = {} THEN {"USAGE"}
    ELSE held

\* The rows of SHOW GRANTS FOR user@host: one line per scope the account holds
\* something on, and always one for *.*.
RECURSIVE ShowGrantsFrom(_, _)
ShowGrantsFrom(acct, i) ==
    IF i > Len(ScopeSeq) THEN <<>>
    ELSE LET s == ScopeSeq[i]
             rest == ShowGrantsFrom(acct, i + 1)
         IN  IF s = GLOBAL \/ acct.priv[s] # {} \/ s \in acct.wgo
             THEN <<[privs |-> Display(acct.priv[s]), scope |-> s,
                     wgo |-> s \in acct.wgo]>> \o rest
             ELSE rest

ShowGrants(acct) == ShowGrantsFrom(acct, 1)

\* What one statement does on the server: ok is FALSE when the server rejects
\* it (errno 1396 is the error the password path handles, 1064 a syntax
\* error, 1396 also names an account that is missing or already there).
ServerApply(srv, st) ==
    LET a == srv.acct[st.host]
        Ok(acct) == [ok |-> TRUE, errno |-> 0,
                     srv |-> [srv EXCEPT !.acct[st.host] = acct]]
        Fail(n) == [ok |-> FALSE, errno |-> n, srv |-> srv]
    IN  CASE st.op \in ReadOps -> Ok(a)
          [] st.op = "FLUSH PRIVILEGES" -> Ok(a)
          [] st.op = "GRANT" ->
                IF st.privs = {} THEN Fail(1064)
                ELSE Ok([a EXCEPT
                          !.priv[st.scope] = @ \cup Expand(st.privs),
                          !.wgo = IF st.wgo THEN @ \cup {st.scope} ELSE @,
                          !.tls = IF st.req = None THEN @
                                  ELSE IF st.req = "NONE" THEN None ELSE st.req])
          [] st.op = "REVOKE" ->
                IF st.privs = {} THEN Fail(1064)
                ELSE Ok([a EXCEPT !.priv[st.scope] = @ \ Expand(st.privs)])
          [] st.op = "REVOKE GRANT OPTION" ->
                Ok([a EXCEPT !.wgo = @ \ {st.scope}])
          [] st.op = "ALTER USER IDENTIFIED" ->
                IF a.auth = "" THEN Fail(1396)
                ELSE Ok([a EXCEPT !.plugin = st.plugin, !.auth = st.auth])
          [] st.op = "UPDATE mysql.user" ->
                Ok([a EXCEPT !.plugin = st.plugin, !.auth = st.auth])
          [] st.op = "SET PASSWORD" -> Ok([a EXCEPT !.auth = st.auth])
          [] st.op = "ALTER USER REQUIRE" ->
                Ok([a EXCEPT !.tls = IF st.req = "NONE" THEN None ELSE st.req])
          [] st.op = "CREATE USER" ->
                IF a.exists THEN Fail(1396)
                ELSE Ok([NoAcct EXCEPT !.exists = TRUE, !.plugin = st.plugin,
                          !.auth = st.auth,
                          !.tls = IF st.req = None THEN None ELSE st.req])
          [] st.op = "DROP USER IF EXISTS" ->
                IF srv.old THEN Fail(1064) ELSE Ok(NoAcct)
          [] st.op = "DROP USER" ->
                IF a.exists THEN Ok(NoAcct) ELSE Fail(1396)

--------------------------------------------------------------------------
(* The run of one operation: the server, the statements sent so far, and
   the local variables of user_mod that outlive one step. *)

\* status: "run" while the operation executes, "returned" once it returned,
\* "failed" after module.fail_json, "error" after an exception left it.
\* ok and errno tell how the server answered the last statement.
Start(srv) ==
    [srv |-> srv, log |-> <<>>, status |-> "run", err |-> "", ok |-> TRUE,
     errno |-> 0, changed |-> FALSE, password_changed |-> FALSE,
     grant_option |-> FALSE, msg |-> "User unchanged"]

Answered(m, st, r) ==
    [m EXCEPT !.log = Append(@, st), !.srv = r.srv, !.ok = r.ok, !.errno = r.errno]

\* cursor.execute(st) inside a try block: the statement is sent and the
\* answer of the server is kept for the except clause.
Send(m, st) ==
    IF m.status # "run" THEN m ELSE Answered(m, st, ServerApply(m.srv, st))

\* An exception leaves the operation.
Raise(m, err) ==
    IF m.status # "run" THEN m
    ELSE [m EXCEPT !.status = "error", !.err = err]

\* The statement just sent raises err when the server rejected it.
RaiseIfRejected(m, err) ==
    IF m.status = "run" /\ ~m.ok THEN Raise(m, err) ELSE m

\* cursor.execute(st) outside any try block.
Exec(m, st) == RaiseIfRejected(Send(m, st), "mysql_driver.Error")

\* return {'changed': c, 'msg': msg, 'password_changed': ...}
Return(m, c, msg) ==
    IF m.status # "run" THEN m
    ELSE [m EXCEPT !.status = "returned", !.changed = c, !.msg = msg]

\* module.fail_json(msg=...): the module exits.
FailJson(m, msg) ==
    IF m.status # "run" THEN m
    ELSE [m EXCEPT !.status = "failed", !.msg = msg]

\* msg = ...
Msg(m, msg) == IF m.status # "run" THEN m ELSE [m EXCEPT !.msg = msg]

\* changed = True
Changed(m) == IF m.status # "run" THEN m ELSE [m EXCEPT !.changed = TRUE]

\* Python truthiness of an optional string argument.
Truthy(x) == x # None /\ x # ""

--------------------------------------------------------------------------
(* Privilege maps: a dict scope -> token list, kept as the sequence of its
   items in insertion order, the order in which the code iterates it. *)

Keys(pm) == {pm[i].db_table : i \in 1..Len(pm)}

Has(pm, k) == k \in Keys(pm)

Tokens(pm, k) == pm[CHOOSE i \in 1..Len(pm) : pm[i].db_table = k].priv

pick(x) == IF x = "ALL PRIVILEGES" THEN "ALL" ELSE x

\* One parsed row of SHOW GRANTS: WITH GRANT OPTION adds the GRANT token, for
\* users and MySQL roles only.
ParsedGrant(grant, maria_role) ==
    [db_table |-> grant.scope,
     priv |-> {pick(x) : x \in grant.privs}
              \cup (IF ~maria_role /\ grant.wgo THEN {"GRANT"} ELSE {})]

\* privileges_get: the privilege map parsed from the SHOW GRANTS rows of an
\* account.
privileges_get(acct, maria_role) ==
    [i \in 1..Len(ShowGrants(acct)) |-> ParsedGrant(ShowGrants(acct)[i], maria_role)]

\* privileges_unpack, on a specification already split into its segments
\* (scope, upper-cased tokens): the segments, and *.*: USAGE when asked for
\* and no segment names *.*.
privileges_unpack(priv, ensure_usage) ==
    IF ensure_usage /\ ~Has(priv, GLOBAL)
    THEN Append(priv, [db_table |-> GLOBAL, priv |-> {"USAGE"}])
    ELSE priv

PrivSt(by, op, host, db_table, privs, wgo, req) ==
    [St(op, host, db_table, privs, wgo, req, "", "") EXCEPT !.by = by]

\* if grant_option: REVOKE GRANT OPTION ON db_table FROM ... (user.py 677-685)
RevokeGrantOption(m, host, db_table, grant_option, maria_role) ==
    IF ~grant_option THEN m
    ELSE IF maria_role
         \* one placeholder, two parameters: the driver cannot format it
         THEN Raise(m, "TypeError")
         ELSE Exec(m, PrivSt("privileges_revoke", "REVOKE GRANT OPTION", host, db_table, {}, FALSE, None))

\* privileges_revoke
privileges_revoke(m, host, db_table, priv, grant_option, maria_role) ==
    Exec(Exec(RevokeGrantOption(m, host, db_table, grant_option, maria_role),
              PrivSt("privileges_revoke", "REVOKE", host, db_table, priv \ {"GRANT"},
                     FALSE, None)),
         PrivSt("privileges_revoke", "FLUSH PRIVILEGES", host, "", {}, FALSE, None))

\* privileges_grant
privileges_grant(m, host, db_table, priv, tls_requires, maria_role) ==
    RaiseIfRejected(
        Send(m, PrivSt("privileges_grant", "GRANT", host, db_table, priv \ {"GRANT"},
                       "GRANT" \in priv,
                       IF Truthy(tls_requires) /\ m.srv.old THEN tls_requires ELSE None)),
        "InvalidPrivsError")

--------------------------------------------------------------------------
(* user_mod *)

\* The strings is_hash accepts: '*' followed by 40 hexadecimal digits.
HashStrings == {"*A", "*B", "*X"}

is_hash(password) == password \in HashStrings

\* user_get_hostnames: the hosts of the user's accounts.
user_get_hostnames(srv) == SelectSeq(HostSeq, LAMBDA h : srv.acct[h].exists)

\* get_tls_requires: the REQUIRE clause of the account (None, SSL or X509).
get_tls_requires(acct) == acct.tls

\* get_grants: the privilege list of the account's ON *.* line.
get_grants(acct) == ShowGrants(acct)[1].privs

Identified(op, host, plugin, auth) == St(op, host, "", {}, FALSE, None, plugin, auth)

\* except mysql_driver.Error: error 1396 is answered by writing mysql.user
\* directly, any other error is raised again (user.py 266-280).
PasswordFallback(m, host, encrypted_password) ==
    IF m.status # "run" THEN m
    ELSE IF m.ok THEN Msg(m, "Password updated (new style)")
    ELSE IF m.errno = 1396
    THEN Msg(Exec(Exec(m, Identified("UPDATE mysql.user", host, NativePlugin,
                                     encrypted_password)),
                  Read("FLUSH PRIVILEGES", host)),
             "Password forced update")
    ELSE Raise(m, "mysql_driver.Error")

\* A user_mod that sets the password without comparing the hashes.
PasswordUpdateAlways(m, a, host, current_pass_hash, encrypted_password) ==
    IF m.status # "run" THEN m
    ELSE IF a.check_mode
    THEN Return([m EXCEPT !.password_changed = TRUE], TRUE, "Password updated")
    ELSE IF m.srv.old
    THEN Changed(Msg(Exec([m EXCEPT !.password_changed = TRUE],
                          Identified("SET PASSWORD", host, "", encrypted_password)),
                     "Password updated (old style)"))
    ELSE Changed(PasswordFallback(
                    Send([m EXCEPT !.password_changed = TRUE],
                         Identified("ALTER USER IDENTIFIED", host, NativePlugin,
                                    encrypted_password)),
                    host, encrypted_password))

\* if current_pass_hash != encrypted_password: ... (user.py 257-281)
PasswordUpdate(m, a, host, current_pass_hash, encrypted_password) ==
    IF m.status # "run" \/ current_pass_hash = encrypted_password THEN m
    ELSE IF a.check_mode
    THEN Return([m EXCEPT !.password_changed = TRUE], TRUE, "Password updated")
    ELSE IF m.srv.old
    THEN Changed(Msg(Exec([m EXCEPT !.password_changed = TRUE],
                          Identified("SET PASSWORD", host, "", encrypted_password)),
                     "Password updated (old style)"))
    ELSE Changed(PasswordFallback(
                    Send([m EXCEPT !.password_changed = TRUE],
                         Identified("ALTER USER IDENTIFIED", host, NativePlugin,
                                    encrypted_password)),
                    host, encrypted_password))

\* if encrypted: ... else: ... (user.py 246-255)
PasswordHash(m, a, host, current_pass_hash) ==
    IF a.encrypted
    THEN IF ~is_hash(a.password)
         THEN FailJson(m, "encrypted was specified however it does not appear to be a valid hash")
         ELSE PasswordUpdate(m, a, host, current_pass_hash, a.password)
    ELSE PasswordUpdate(Exec(m, Read("SELECT", host)), a, host, current_pass_hash,
                        HashOf(a.password))

\* Handle clear text and hashed passwords (user.py 216-281).
HandlePassword(m, a, host) ==
    IF m.status # "run" \/ a.role \/ ~Truthy(a.password) THEN m
    ELSE PasswordHash(Exec(Exec(Exec(m, Read("SELECT", host)), Read("SELECT", host)),
                           Read("SELECT", host)),
                      a, host, m.srv.acct[host].auth)

\* update = ... (user.py 289-302)
PluginDiffers(acct, a) ==
    \/ acct.plugin # a.plugin
    \/ Truthy(a.plugin_hash_string) /\ acct.auth # a.plugin_hash_string
    \/ Truthy(a.plugin_auth_string) /\ acct.auth # a.plugin_auth_string

\* The authentication string the ALTER USER of the plugin path stores.
PluginAuth(a) ==
    IF Truthy(a.plugin_hash_string) THEN a.plugin_hash_string
    ELSE IF Truthy(a.plugin_auth_string) THEN HashOf(a.plugin_auth_string)
    ELSE ""

\* password_changed = True; changed = True
PluginChanged(m) ==
    IF m.status # "run" THEN m
    ELSE [m EXCEPT !.password_changed = TRUE, !.changed = TRUE]

\* Handle plugin authentication (user.py 283-314).
HandlePlugin(m, a, host) ==
    IF m.status # "run" \/ a.role \/ ~Truthy(a.plugin) THEN m
    ELSE IF ~PluginDiffers(m.srv.acct[host], a) THEN Exec(m, Read("SELECT", host))
    ELSE PluginChanged(
            Exec(Exec(m, Read("SELECT", host)),
                 Identified("ALTER USER IDENTIFIED", host, a.plugin, PluginAuth(a))))

\* if "GRANT" in priv: grant_option = True
NoteGrantOption(m, priv) ==
    IF "GRANT" \in priv THEN [m EXCEPT !.grant_option = TRUE] ELSE m

\* One scope of the user's current privileges (user.py 324-333).
RevokeAbsentScope(m, a, host, db_table, priv) ==
    IF ~Has(a.new_priv, db_table) /\ a.user # "root" /\ "PROXY" \notin priv
    THEN IF a.check_mode THEN Return(m, TRUE, "Privileges updated")
         ELSE Changed(privileges_revoke(Msg(m, "Privileges updated"), host, db_table,
                                        priv, m.grant_option, a.maria_role))
    ELSE m

\* for db_table, priv in iteritems(curr_priv): revoke the scopes that do not
\* appear at all in the new specification (user.py 322-333).
RECURSIVE RevokeAbsent(_, _, _, _, _)
RevokeAbsent(m, a, host, curr_priv, i) ==
    IF m.status # "run" \/ i > Len(curr_priv) THEN m
    ELSE RevokeAbsent(
            RevokeAbsentScope(NoteGrantOption(m, curr_priv[i].priv), a, host,
                              curr_priv[i].db_table, curr_priv[i].priv),
            a, host, curr_priv, i + 1)

\* One scope of the new privileges (user.py 339-344).
GrantNewScope(m, a, host, curr_priv, db_table, priv) ==
    IF ~Has(curr_priv, db_table)
    THEN IF a.check_mode THEN Return(m, TRUE, "New privileges granted")
         ELSE Changed(privileges_grant(Msg(m, "New privileges granted"), host, db_table,
                                       priv, a.tls_requires, a.maria_role))
    ELSE m

\* for db_table, priv in iteritems(new_priv): a straight grant of the scopes
\* the user holds nothing on (user.py 337-344).
RECURSIVE GrantNew(_, _, _, _, _)
GrantNew(m, a, host, curr_priv, i) ==
    IF m.status # "run" \/ i > Len(a.new_priv) THEN m
    ELSE GrantNew(GrantNewScope(m, a, host, curr_priv, a.new_priv[i].db_table,
                                a.new_priv[i].priv),
                  a, host, curr_priv, i + 1)

Replace(a) == ~a.append_privs /\ ~a.subtract_privs

\* A variant that grants every desired token, held or not.
GrantDiffAllDesired(new, cur, a) ==
    IF a.append_privs \/ ~a.subtract_privs THEN new ELSE {}

\* grant_privs before USAGE is added (user.py 355, 363).
GrantDiff(new, cur, a) ==
    IF a.append_privs \/ ~a.subtract_privs THEN new \ cur ELSE {}

\* A variant that revokes under APPEND what REPLACE would revoke.
revoke_privs_under_append(new, cur, a) ==
    IF a.subtract_privs THEN new \cap cur
    ELSE IF "ALL" \in new \ cur \/ "ALL PRIVILEGES" \in new \ cur
    THEN {"GRANT", "PROXY"} \cap (cur \ new)
    ELSE cur \ new

\* A variant that revokes every token only in current even when ALL is granted.
revoke_privs_despite_all(new, cur, a) ==
    IF a.append_privs THEN {}
    ELSE IF a.subtract_privs THEN new \cap cur
    ELSE cur \ new

\* revoke_privs (user.py 359, 364-368).
revoke_privs(new, cur, a) ==
    IF a.append_privs THEN {}
    ELSE IF a.subtract_privs THEN new \cap cur
    ELSE IF "ALL" \in new \ cur \/ "ALL PRIVILEGES" \in new \ cur
    THEN {"GRANT", "PROXY"} \cap (cur \ new)
    ELSE cur \ new

\* grant_privs (user.py 355, 363, 376-378).
grant_privs(new, cur, a) ==
    IF GrantDiff(new, cur, a) = {"GRANT"} THEN {"GRANT", "USAGE"}
    ELSE GrantDiff(new, cur, a)

\* grant_option = 'GRANT' in revoke_privs and 'GRANT' not in grant_privs,
\* assigned by the REPLACE branch only (user.py 374).
SetGrantOption(m, new, cur, a) ==
    IF Replace(a)
    THEN [m EXCEPT !.grant_option = "GRANT" \in revoke_privs(new, cur, a)
                                     /\ "GRANT" \notin GrantDiff(new, cur, a)]
    ELSE m

\* if len(revoke_privs) > 0: privileges_revoke(...)
RevokeDiff(m, a, host, db_table, revoke) ==
    IF revoke # {}
    THEN privileges_revoke(m, host, db_table, revoke, m.grant_option, a.maria_role)
    ELSE m

\* if len(grant_privs) > 0: privileges_grant(...)
GrantDiffs(m, a, host, db_table, grant) ==
    IF grant # {}
    THEN privileges_grant(m, host, db_table, grant, a.tls_requires, a.maria_role)
    ELSE m

\* A variant that grants before it revokes.
IntersectScopeGrantFirst(m, a, host, db_table, new, cur) ==
    IF grant_privs(new, cur, a) = {} /\ revoke_privs(new, cur, a) = {} THEN m
    ELSE IF a.check_mode THEN Return(m, TRUE, "Privileges updated: granted, revoked")
    ELSE RevokeDiff(
            GrantDiffs(Msg(m, "Privileges updated: granted, revoked"), a, host,
                       db_table, grant_privs(new, cur, a)),
            a, host, db_table, revoke_privs(new, cur, a))

\* One scope of both maps (user.py 351-387).
IntersectScope(m, a, host, db_table, new, cur) ==
    IF grant_privs(new, cur, a) = {} /\ revoke_privs(new, cur, a) = {} THEN m
    ELSE IF a.check_mode THEN Return(m, TRUE, "Privileges updated: granted, revoked")
    ELSE GrantDiffs(
            RevokeDiff(Msg(m, "Privileges updated: granted, revoked"), a, host,
                       db_table, revoke_privs(new, cur, a)),
            a, host, db_table, grant_privs(new, cur, a))

\* for db_table in db_table_intersect (user.py 348-387); a.isect is the
\* order in which the set is iterated.
RECURSIVE Intersect(_, _, _, _, _)
Intersect(m, a, host, curr_priv, i) ==
    IF m.status # "run" \/ i > Len(a.isect) THEN m
    ELSE IF ~(Has(a.new_priv, a.isect[i]) /\ Has(curr_priv, a.isect[i]))
    THEN Intersect(m, a, host, curr_priv, i + 1)
    ELSE Intersect(
            IntersectScope(
                SetGrantOption(m, Tokens(a.new_priv, a.isect[i]),
                               Tokens(curr_priv, a.isect[i]), a),
                a, host, a.isect[i], Tokens(a.new_priv, a.isect[i]),
                Tokens(curr_priv, a.isect[i])),
            a, host, curr_priv, i + 1)

\* The three loops over the scopes (user.py 322-387).
Reconcile(m, a, host, curr_priv) ==
    Intersect(
        IF a.subtract_privs
        THEN m
        ELSE GrantNew(IF Replace(a) THEN RevokeAbsent(m, a, host, curr_priv, 1) ELSE m,
                      a, host, curr_priv, 1),
        a, host, curr_priv, 1)

\* A variant that does not compare the privileges after the run with those before.
CompareAfterSkipped(m, a, host, curr_priv) == m

\* after_priv = privileges_get(...); changed = changed or (curr_priv != after_priv)
CompareAfter(m, a, host, curr_priv) ==
    IF m.status # "run" THEN m
    ELSE [m EXCEPT !.changed =
            @ \/ (curr_priv # privileges_get(m.srv.acct[host], a.maria_role))]

\* Handle privileges (user.py 316-391).
HandlePrivileges(m, a, host) ==
    IF m.status # "run" \/ ~a.priv_given THEN m
    ELSE CompareAfter(
            Exec(Reconcile(Exec(m, Read("SHOW GRANTS", host)), a, host,
                           privileges_get(m.srv.acct[host], a.maria_role)),
                 Read("SHOW GRANTS", host)),
            a, host, privileges_get(m.srv.acct[host], a.maria_role))

\* The statement that sets the TLS requirements (user.py 402-414).
RequireSt(m, a, host) ==
    IF ~m.srv.old
    THEN St("ALTER USER REQUIRE", host, "", {}, FALSE,
            IF a.tls_requires # None THEN a.tls_requires ELSE "NONE", "", "")
    ELSE St("GRANT", host, GLOBAL, get_grants(m.srv.acct[host]), FALSE,
            IF a.tls_requires # None THEN a.tls_requires ELSE "NONE", "", "")

\* if current_requires != tls_requires: ... (user.py 398-415)
TlsUpdate(m, a, host) ==
    IF m.status # "run" \/ get_tls_requires(m.srv.acct[host]) = a.tls_requires THEN m
    ELSE IF a.check_mode THEN Return(m, TRUE, "TLS requires updated")
    ELSE Changed(Exec(IF m.srv.old
                      THEN Exec(Msg(m, "TLS requires updated"), Read("SHOW GRANTS", host))
                      ELSE Msg(m, "TLS requires updated"),
                      RequireSt(m, a, host)))

\* Handle TLS requirements (user.py 393-415).
HandleTls(m, a, host) ==
    IF m.status # "run" \/ a.role THEN m
    ELSE TlsUpdate(Exec(m, Read(IF m.srv.old THEN "SHOW GRANTS" ELSE "SHOW CREATE USER",
                                host)),
                   a, host)

\* A user_mod that handles the TLS requirements before the privileges.
HostBodyTlsFirst(m, a, host) ==
    HandlePrivileges(HandleTls(HandlePlugin(HandlePassword(m, a, host), a, host),
                               a, host), a, host)

\* One pass of the loop over the hosts: password, plugin, privileges, TLS
\* requirements (user.py 216-415).
HostBody(m, a, host) ==
    HandleTls(HandlePrivileges(HandlePlugin(HandlePassword(m, a, host), a, host),
                               a, host), a, host)

\* for host in hostnames: ...
RECURSIVE ForHosts(_, _, _, _)
ForHosts(m, a, hostnames, i) ==
    IF m.status # "run" \/ i > Len(hostnames) THEN m
    ELSE ForHosts(HostBody(m, a, hostnames[i]), a, hostnames, i + 1)

\* return {'changed': changed, 'msg': msg, 'password_changed': password_changed}
ReturnChanged(m) == Return(m, m.changed, m.msg)

\* user_mod (user.py 198-417)
user_mod(srv, a) ==
    ReturnChanged(
        IF a.host_all /\ ~a.role
        THEN ForHosts(Exec(Start(srv), Read("SELECT", a.host)), a,
                      user_get_hostnames(srv), 1)
        ELSE ForHosts(Start(srv), a, <<a.host>>, 1))

--------------------------------------------------------------------------
(* user_add and user_delete *)

ExistingRows(srv) ==
    {<<srv.acct[h].plugin, srv.acct[h].auth>> :
        h \in {x \in HostSet : srv.acct[x].exists}}

\* get_existing_authentication: whether all accounts of the user share one
\* plugin and auth string ...
HasExistingAuth(srv) == Cardinality(ExistingRows(srv)) = 1

\* ... and that plugin and auth string.
ExistingAuth(srv) == CHOOSE r \in ExistingRows(srv) : TRUE

\* if reuse_existing_password: existing_auth = ...; if existing_auth: ...
UsedExisting(srv, a) == a.reuse_existing_password /\ HasExistingAuth(srv)

\* The IDENTIFIED clause of the CREATE USER statement (user.py 151-177);
\* IDENTIFIED BY PASSWORD <hash> and IDENTIFIED WITH mysql_native_password
\* AS <hash> store the same plugin and string.
CreateIdent(srv, a) ==
    IF UsedExisting(srv, a)
    THEN IF Truthy(ExistingAuth(srv)[1]) /\ Truthy(ExistingAuth(srv)[2])
         THEN ExistingAuth(srv)
         ELSE IF Truthy(ExistingAuth(srv)[1]) /\ Truthy(a.plugin_auth_string)
         THEN <<ExistingAuth(srv)[1], HashOf(a.plugin_auth_string)>>
         ELSE <<ExistingAuth(srv)[1], "">>
    ELSE IF Truthy(a.password) /\ a.encrypted THEN <<NativePlugin, a.password>>
    ELSE IF Truthy(a.password) THEN <<NativePlugin, HashOf(a.password)>>
    ELSE IF Truthy(a.plugin) /\ Truthy(a.plugin_hash_string)
    THEN <<a.plugin, a.plugin_hash_string>>
    ELSE IF Truthy(a.plugin) /\ Truthy(a.plugin_auth_string)
    THEN <<a.plugin, HashOf(a.plugin_auth_string)>>
    ELSE IF Truthy(a.plugin) THEN <<a.plugin, "">>
    ELSE <<NativePlugin, "">>

\* cursor.execute(*mogrify(*query_with_args_and_tls_requires))
CreateUser(m, a) ==
    Exec(m, St("CREATE USER", a.host, "", {}, FALSE,
               IF ~m.srv.old /\ Truthy(a.tls_requires) THEN a.tls_requires ELSE None,
               CreateIdent(m.srv, a)[1], CreateIdent(m.srv, a)[2]))

\* The reads before the CREATE USER statement.
CreateReads(m, a) ==
    IF ~UsedExisting(m.srv, a) /\ Truthy(a.password) /\ ~a.encrypted /\ ~m.srv.old
    THEN Exec(m, Read("SELECT", a.host))
    ELSE m

\* for db_table, priv in iteritems(new_priv): privileges_grant(...)
RECURSIVE GrantAll(_, _, _)
GrantAll(m, a, i) ==
    IF m.status # "run" \/ ~a.priv_given \/ i > Len(a.new_priv) THEN m
    ELSE GrantAll(privileges_grant(m, a.host, a.new_priv[i].db_table,
                                   a.new_priv[i].priv, a.tls_requires, FALSE),
                  a, i + 1)

\* if tls_requires is not None: privileges_grant(..., "*.*", get_grants(...), ...)
GrantRequire(m, a) ==
    IF m.status # "run" \/ a.tls_requires = None THEN m
    ELSE privileges_grant(Exec(m, Read("SHOW GRANTS", a.host)), a.host, GLOBAL,
                          get_grants(m.srv.acct[a.host]), a.tls_requires, FALSE)

\* return {'changed': True, 'password_changed': not used_existing_password}
ReturnAdded(m, used_existing_password) ==
    IF m.status # "run" THEN m
    ELSE [m EXCEPT !.status = "returned", !.changed = TRUE, !.msg = "",
                   !.password_changed = ~used_existing_password]

\* user_add (user.py 135-187)
user_add(srv, a) ==
    IF a.host_all THEN Return(Start(srv), FALSE, "")
    ELSE IF a.check_mode THEN Return(Start(srv), TRUE, "")
    ELSE ReturnAdded(
            GrantRequire(
                GrantAll(
                    CreateUser(
                        CreateReads(
                            IF a.reuse_existing_password
                            THEN Exec(Exec(Start(srv), Read("SELECT", a.host)),
                                      Read("SELECT", a.host))
                            ELSE Start(srv),
                            a),
                        a),
                    a, 1),
                a),
            UsedExisting(srv, a))

\* try: DROP USER IF EXISTS ... except Exception: DROP USER ...
DropFallback(m, hostname) ==
    IF m.status # "run" \/ m.ok THEN m
    ELSE Exec(m, Read("DROP USER", hostname))

\* for hostname in hostnames: ... (user.py 429-433)
RECURSIVE DropAll(_, _, _)
DropAll(m, hostnames, i) ==
    IF m.status # "run" \/ i > Len(hostnames) THEN m
    ELSE DropAll(DropFallback(Send(m, Read("DROP USER IF EXISTS", hostnames[i])),
                              hostnames[i]),
                 hostnames, i + 1)

\* user_delete (user.py 420-435)
user_delete(srv, a) ==
    IF a.check_mode THEN Return(Start(srv), TRUE, "")
    ELSE IF a.host_all
    THEN Return(DropAll(Exec(Start(srv), Read("SELECT", a.host)),
                        user_get_hostnames(srv), 1),
                TRUE, "")
    ELSE Return(DropAll(Start(srv), <<a.host>>, 1), TRUE, "")

--------------------------------------------------------------------------
(* CommandResolver (module_utils/command_resolver.py) *)

\* str.upper() on the spellings the model passes as commands; it leaves an
\* upper-case string as it is.
upper(command) ==
    CASE command = "show master status" -> "SHOW MASTER STATUS"
      [] command = "SHOW master STATUS" -> "SHOW MASTER STATUS"
      [] command = "change master" -> "CHANGE MASTER"
      [] command = "Master_Host" -> "MASTER_HOST"
      [] command = "reset master" -> "RESET MASTER"
      [] command = "show nothing" -> "SHOW NOTHING"
      [] OTHER -> command

\* LooseVersion(string): the components of a dotted version string.
LooseVersion(v) ==
    CASE v = "1.0.0" -> <<1, 0, 0>>
      [] v = "8" -> <<8>>
      [] v = "8.0" -> <<8, 0>>
      [] v = "8.0.20" -> <<8, 0, 20>>
      [] v = "8.0.22" -> <<8, 0, 22>>
      [] v = "8.0.23" -> <<8, 0, 23>>
      [] v = "8.2.0" -> <<8, 2, 0>>
      [] v = "8.4.0" -> <<8, 4, 0>>
      [] v = "8.4.1" -> <<8, 4, 1>>
      [] v = "9.0.0" -> <<9, 0, 0>>
      [] v = "10.4.23" -> <<10, 4, 23>>
      [] v = "10.5" -> <<10, 5>>
      [] v = "10.5.1" -> <<10, 5, 1>>
      [] v = "10.5.2" -> <<10, 5, 2>>
      [] v = "10.6.17" -> <<10, 6, 17>>
      [] v = "10.11.1.2" -> <<10, 11, 1, 2>>

\* The first position at which two component lists differ, 0 when one is a
\* prefix of the other.
FirstDifference(a, b) ==
    IF \E i \in 1..Len(a) : i <= Len(b) /\ a[i] # b[i]
    THEN CHOOSE i \in 1..Len(a) :
            /\ i <= Len(b) /\ a[i] # b[i]
            /\ \A j \in 1..(i - 1) : a[j] = b[j]
    ELSE 0

\* LooseVersion a >= LooseVersion b: the component lists compared in
\* lexicographic order, a prefix being lower than its extensions.
VersionGe(a, b) ==
    IF FirstDifference(a, b) = 0 THEN Len(a) >= Len(b)
    ELSE a[FirstDifference(a, b)] > b[FirstDifference(a, b)]

Entry(impl, v, cmd) == [impl |-> impl, v |-> v, cmd |-> cmd]

\* A command that both implementations spell as the key by default and that
\* one implementation renames from a version on.
Renamed(key, impl, v, cmd) ==
    {Entry("mysql", "default", key), Entry("mariadb", "default", key),
     Entry(impl, v, cmd)}

MasterOptions ==
    {"HOST", "USER", "PASSWORD", "PORT", "CONNECT_RETRY", "LOG_FILE", "LOG_POS",
     "DELAY", "SSL", "SSL_CA", "SSL_CAPATH", "SSL_CERT", "SSL_KEY", "SSL_CIPHER",
     "SSL_VERIFY_SERVER_CERT", "AUTO_POSITION"}

CommandKeys ==
    {"SHOW MASTER STATUS", "SHOW SLAVE STATUS", "SHOW SLAVE HOSTS", "CHANGE MASTER",
     "RESET MASTER"} \cup {"MASTER_" \o o : o \in MasterOptions}

\* commands: the table of resolve_command, key -> {((impl, version), cmd)}.
commands ==
    [key \in CommandKeys |->
        CASE key = "SHOW MASTER STATUS" ->
                Renamed(key, "mysql", "8.2.0", "SHOW BINARY LOG STATUS")
                \cup {Entry("mariadb", "10.5.2", "SHOW BINLOG STATUS")}
          [] key = "SHOW SLAVE STATUS" ->
                Renamed(key, "mysql", "8.0.22", "SHOW REPLICA STATUS")
                \cup {Entry("mariadb", "10.5.1", "SHOW REPLICA STATUS")}
          [] key = "SHOW SLAVE HOSTS" ->
                Renamed(key, "mysql", "8.0.22", "SHOW REPLICAS")
                \cup {Entry("mariadb", "10.5.1", "SHOW REPLICA HOSTS")}
          [] key = "CHANGE MASTER" ->
                Renamed(key, "mysql", "8.0.23", "CHANGE REPLICATION SOURCE")
          [] key = "RESET MASTER" ->
                Renamed(key, "mysql", "8.4.0", "RESET BINARY LOGS AND GTIDS")
          [] OTHER ->
                Renamed(key, "mysql", "8.0.23",
                        "SOURCE_" \o (CHOOSE o \in MasterOptions : key = "MASTER_" \o o))]

\* applicable_versions = [(v, cmd) for (impl, v), cmd in cmd_syntaxes.items()
\*                        if impl == self.server_implementation and v != 'default']
applicable_versions(server_implementation, cmd_syntaxes) ==
    {e \in cmd_syntaxes : e.impl = server_implementation /\ e.v # "default"}

\* applicable_versions.sort(reverse=True, key=lambda x: LooseVersion(x[0]))
RECURSIVE SortedDescending(_)
SortedDescending(entries) ==
    IF entries = {} THEN <<>>
    ELSE <<CHOOSE e \in entries :
              \A f \in entries : VersionGe(LooseVersion(e.v), LooseVersion(f.v))>>
         \o SortedDescending(
              entries \ {CHOOSE e \in entries :
                  \A f \in entries : VersionGe(LooseVersion(e.v), LooseVersion(f.v))})

Returned(cmd) == [status |-> "returned", value |-> cmd]

Raised(error, message) == [status |-> error, value |-> message]

\* return cmd_syntaxes[(self.server_implementation, "default")]
Default(server_implementation, cmd_syntaxes) ==
    IF \E e \in cmd_syntaxes : e.impl = server_implementation /\ e.v = "default"
    THEN Returned((CHOOSE e \in cmd_syntaxes :
                      e.impl = server_implementation /\ e.v = "default").cmd)
    ELSE Raised("KeyError", "")

\* A variant that takes a floor only for versions strictly above it.
Above(server_version, version) ==
    ~VersionGe(LooseVersion(version), LooseVersion(server_version))

\* if self.server_version >= LooseVersion(version): return cmd
AtOrAbove(server_version, version) ==
    VersionGe(LooseVersion(server_version), LooseVersion(version))

\* for version, cmd in applicable_versions: ...; return the default
RECURSIVE FirstApplicable(_, _, _, _, _)
FirstApplicable(server_implementation, server_version, cmd_syntaxes, sorted, i) ==
    IF i > Len(sorted) THEN Default(server_implementation, cmd_syntaxes)
    ELSE IF AtOrAbove(server_version, sorted[i].v) THEN Returned(sorted[i].cmd)
    ELSE FirstApplicable(server_implementation, server_version, cmd_syntaxes,
                         sorted, i + 1)

\* A variant that lets the failed table lookup escape.
UnsupportedAsKeyError(command) == Raised("KeyError", command)

\* raise ValueError("Unsupported command: %s" % command)
Unsupported(command) == Raised("ValueError", "Unsupported command: " \o command)

\* The lookup of a command already upper-cased (command_resolver.py 170-180).
Lookup(server_implementation, server_version, command) ==
    IF command \in DOMAIN commands
    THEN FirstApplicable(
            server_implementation, server_version, commands[command],
            SortedDescending(applicable_versions(server_implementation,
                                                 commands[command])),
            1)
    ELSE Unsupported(command)

\* CommandResolver(server_implementation, server_version).resolve_command(command)
resolve_command(server_implementation, server_version, command) ==
    Lookup(server_implementation, server_version, upper(command))

--------------------------------------------------------------------------
(* Python strings: the str methods user.py parses text with *)

\* s[i - 1:j], which like Python's slice stops at the end of s.
Slice(s, i, j) ==
    IF i > Len(s) \/ j < i THEN ""
    ELSE SubSeq(s, i, IF j > Len(s) THEN Len(s) ELSE j)

\* s[i - 1:i], a string of one character, empty past the end of s.
Ch(s, i) == Slice(s, i, i)

\* s[i - 1:]
From(s, i) == Slice(s, i, Len(s))

\* The characters str.strip() removes.
Whitespace == {" "}

RECURSIVE lstrip(_, _)
\* s.lstrip(cs)
lstrip(s, cs) ==
    IF Len(s) > 0 /\ Ch(s, 1) \in cs THEN lstrip(Tail(s), cs) ELSE s

RECURSIVE rstrip(_, _)
\* s.rstrip(cs)
rstrip(s, cs) ==
    IF Len(s) > 0 /\ Ch(s, Len(s)) \in cs
    THEN rstrip(SubSeq(s, 1, Len(s) - 1), cs)
    ELSE s

\* s.strip(cs); s.strip() when cs is Whitespace.
strip(s, cs) == rstrip(lstrip(s, cs), cs)

\* The positions at which sub occurs in s.
Occurrences(s, sub) ==
    {i \in 1..(Len(s) - Len(sub) + 1) : SubSeq(s, i, i + Len(sub) - 1) = sub}

\* sub in s
In(sub, s) == Occurrences(s, sub) # {}

\* s.find(sub) + 1 and s.rfind(sub) + 1: 0 when sub does not occur.
find(s, sub) ==
    IF In(sub, s)
    THEN CHOOSE i \in Occurrences(s, sub) : \A j \in Occurrences(s, sub) : i <= j
    ELSE 0

rfind(s, sub) ==
    IF In(sub, s)
    THEN CHOOSE i \in Occurrences(s, sub) : \A j \in Occurrences(s, sub) : i >= j
    ELSE 0

\* The two pieces of s around the occurrence of sep at i; s whole when i = 0.
CutAt(s, sep, i) ==
    IF i = 0 THEN <<s>>
    ELSE <<SubSeq(s, 1, i - 1), From(s, i + Len(sep))>>

\* s.split(sep, 1) and s.rsplit(sep, 1)
split1(s, sep) == CutAt(s, sep, find(s, sep))

rsplit1(s, sep) == CutAt(s, sep, rfind(s, sep))

RECURSIVE split(_, _)
\* s.split(sep)
split(s, sep) ==
    IF In(sep, s)
    THEN <<split1(s, sep)[1]>> \o split(split1(s, sep)[2], sep)
    ELSE <<s>>

RECURSIVE join(_, _)
\* sep.join(parts)
join(sep, parts) ==
    IF Len(parts) = 0 THEN ""
    ELSE IF Len(parts) = 1 THEN parts[1]
    ELSE parts[1] \o sep \o join(sep, Tail(parts))

LowerCase == "abcdefghijklmnopqrstuvwxyz"

UpperCase == "ABCDEFGHIJKLMNOPQRSTUVWXYZ"

\* c.upper() for one character.
UpperChar(c) ==
    IF In(c, LowerCase) THEN Ch(UpperCase, find(LowerCase, c)) ELSE c

RECURSIVE str_upper(_)
\* s.upper()
str_upper(s) ==
    IF Len(s) = 0 THEN "" ELSE UpperChar(Ch(s, 1)) \o str_upper(Tail(s))

\* The identifier quote of MySQL, the backtick, is written ^ in every text of
\* the model: a string here cannot hold a backtick.
Backquote == "^"

\* The characters of the model's texts in code point order (^ at the
\* backtick's place).
CodePoints == " '()*,.0123456789:@ABCDEFGHIJKLMNOPQRSTUVWXYZ_^abcdefghijklmnopqrstuvwxyz"

RECURSIVE StrLess(_, _)
\* a < b on strings: by code point, a proper prefix first.
StrLess(a, b) ==
    IF Len(b) = 0 THEN FALSE
    ELSE IF Len(a) = 0 THEN TRUE
    ELSE IF Ch(a, 1) = Ch(b, 1) THEN StrLess(Tail(a), Tail(b))
    ELSE find(CodePoints, Ch(a, 1)) < find(CodePoints, Ch(b, 1))

RECURSIVE Insert(_, _)
\* x put into the sorted list xs.
Insert(x, xs) ==
    IF Len(xs) = 0 THEN <<x>>
    ELSE IF StrLess(xs[1], x) THEN <<xs[1]>> \o Insert(x, Tail(xs))
    ELSE <<x>> \o xs

RECURSIVE sorted(_)
\* list.sort() on strings
sorted(xs) ==
    IF Len(xs) = 0 THEN <<>> ELSE Insert(xs[1], sorted(Tail(xs)))

--------------------------------------------------------------------------
(* Privilege texts: normalize_col_grants and privileges_unpack on strings *)

\* A dict of lists, in insertion order: output[k] = v.
DictSet(output, k, v) ==
    IF \E i \in 1..Len(output) : output[i].db_table = k
    THEN [i \in 1..Len(output) |->
            IF output[i].db_table = k THEN [db_table |-> k, priv |-> v] ELSE output[i]]
    ELSE Append(output, [db_table |-> k, priv |-> v])

\* The columns of sort_column_order, each stripped of spaces, then of quotes.
StripColumns(columns) ==
    [i \in 1..Len(columns) |-> strip(strip(columns[i], Whitespace), {Backquote})]

\* sort_column_order, from the pieces of statement.split('(')
SortColumns(tmp) ==
    tmp[1] \o "(" \o join(", ", sorted(StripColumns(split(rstrip(tmp[2], {")"}), ","))))
           \o ")"

sort_column_order(statement) == SortColumns(split(statement, "("))

RECURSIVE ScanForColumns(_, _, _, _)
\* The loop of has_grant_on_col from element n on, start being the start
\* element found so far; 0 is None.
ScanForColumns(privileges, grant, n, start) ==
    IF n > Len(privileges) THEN <<start, 0>>
    ELSE IF In(grant \o " (", privileges[n])
         THEN IF In(")", privileges[n]) THEN <<n, n>>
              ELSE ScanForColumns(privileges, grant, n + 1, n)
         ELSE IF start # 0 /\ In(")", privileges[n]) THEN <<start, n>>
              ELSE ScanForColumns(privileges, grant, n + 1, start)

\* The (start, end) has_grant_on_col returns from what its loop found.
StartAndEnd(found) == IF found[1] # 0 /\ found[2] # 0 THEN found ELSE <<0, 0>>

has_grant_on_col(privileges, grant) ==
    StartAndEnd(ScanForColumns(privileges, grant, 1, 0))

handle_grant_on_col(privileges, start, end) ==
    IF start # end
    THEN SubSeq(privileges, 1, start - 1)
         \o <<sort_column_order(join(", ", SubSeq(privileges, start, end)))>>
         \o SubSeq(privileges, end + 1, Len(privileges))
    ELSE [privileges EXCEPT ![start] = sort_column_order(privileges[start])]

\* One round of normalize_col_grants' loop.
NormalizeFor(privileges, found) ==
    IF found[1] # 0 THEN handle_grant_on_col(privileges, found[1], found[2])
    ELSE privileges

ColumnGrants == <<"SELECT", "UPDATE", "INSERT", "REFERENCES">>

RECURSIVE NormalizeFrom(_, _)
NormalizeFrom(privileges, g) ==
    IF g > Len(ColumnGrants) THEN privileges
    ELSE NormalizeFrom(
            NormalizeFor(privileges, has_grant_on_col(privileges, ColumnGrants[g])),
            g + 1)

normalize_col_grants(privileges) == NormalizeFrom(privileges, 1)

\* Whether the comma at i of s is one re.split(r',\s*(?=[^)]*(?:\(|$))') splits
\* at: no ')' follows it, or a '(' comes before the next ')'.
SplitsAt(s, i) ==
    /\ Ch(s, i) = ","
    /\ \/ ~In(")", From(s, i + 1))
       \/ In("(", Slice(s, i + 1, i + find(From(s, i + 1), ")")))

\* The first such comma, 0 when there is none.
FirstSplit(s) ==
    IF \E i \in 1..Len(s) : SplitsAt(s, i)
    THEN CHOOSE i \in 1..Len(s) :
            SplitsAt(s, i) /\ \A j \in 1..(i - 1) : ~SplitsAt(s, j)
    ELSE 0

RECURSIVE re_split(_)
\* re.split(r',\s*(?=[^)]*(?:\(|$))', s): the spaces after the comma go with it.
re_split(s) ==
    IF FirstSplit(s) = 0 THEN <<s>>
    ELSE <<Slice(s, 1, FirstSplit(s) - 1)>>
         \o re_split(lstrip(From(s, FirstSplit(s) + 1), Whitespace))

\* One side of a scope, quoted unless it is the star.
Quoted(side, quote) ==
    IF strip(side, {Backquote}) # "*" THEN quote \o strip(side, {Backquote}) \o quote
    ELSE side

QuotedSides(dbpriv, quote) == [i \in 1..Len(dbpriv) |-> Quoted(dbpriv[i], quote)]

IsRoutine(parts) == Len(parts) > 1 /\ parts[1] \in {"FUNCTION", "PROCEDURE"}

\* pieces[0] of privileges_unpack from dbpriv and the parts of dbpriv[0].
ScopeOf(dbpriv, parts, quote) ==
    IF IsRoutine(parts)
    THEN parts[1] \o " " \o join(".", QuotedSides([dbpriv EXCEPT ![1] = parts[2]], quote))
    ELSE join(".", QuotedSides(dbpriv, quote))

\* A privileges_unpack that splits the list at every comma.
TokensAtEveryComma(privs) == split(str_upper(privs), ",")

\* The tokens of a privilege list.
TokensOf(privs) ==
    IF In("(", privs) THEN re_split(str_upper(privs))
    ELSE split(str_upper(privs), ",")

\* re.sub(r'\s*\(.*\)', '', token): what stands from the spaces before the
\* first '(' to the last ')' is removed.
re_sub(token) ==
    IF ~In("(", token) \/ ~In(")", From(token, find(token, "(") + 1)) THEN token
    ELSE rstrip(Slice(token, 1, find(token, "(") - 1), Whitespace)
            \o From(token, rfind(token, ")") + 1)

\* privs.append(...) for every token, when privs is the list stored at key k.
DictExtendAt(output, k, tokens) ==
    [i \in 1..Len(output) |->
        IF output[i].db_table = k
        THEN [db_table |-> k,
              priv |-> output[i].priv
                          \o [j \in 1..Len(tokens) |-> re_sub(tokens[j])]]
        ELSE output[i]]

\* The local variables of privileges_unpack: output, and privs. An item
\* without '(' binds privs to the very list it stores in output (privs =
\* output[pieces[0]], which normalize_col_grants returns as it is), so what a
\* later item with '(' appends to privs is appended to that scope's list, as
\* long as the scope has not been assigned a new list. aliased tells that
\* privs is the list stored at key.
UnpackStart == [output |-> <<>>, aliased |-> FALSE, key |-> ""]

\* The body of privileges_unpack's loop for the pieces of one item.
UnpackPieces(u, pieces, dbpriv, quote) ==
    LET k == ScopeOf(dbpriv, split1(dbpriv[1], " "), quote)
        tokens == TokensOf(pieces[2])
        still == u.aliased /\ u.key # k
    IN  IF In("(", pieces[2])
        THEN [output |-> DictSet(IF still THEN DictExtendAt(u.output, u.key, tokens)
                                 ELSE u.output,
                                 k, normalize_col_grants(tokens)),
              aliased |-> still, key |-> u.key]
        ELSE [output |-> DictSet(u.output, k, normalize_col_grants(tokens)),
              aliased |-> TRUE, key |-> k]

RECURSIVE UnpackItems(_, _, _)
UnpackItems(u, items, quote) ==
    IF Len(items) = 0 THEN u.output
    ELSE UnpackItems(
            UnpackPieces(u, rsplit1(strip(items[1], Whitespace), ":"),
                         rsplit1(rsplit1(strip(items[1], Whitespace), ":")[1], "."),
                         quote),
            Tail(items), quote)

\* The identifier quote for the server's SQL mode.
QuoteOf(mode) == IF mode = "ANSI" THEN "\"" ELSE Backquote

\* A privileges_unpack that adds the global USAGE whatever ensure_usage says.
EnsureUsageAlways(output, ensure_usage) ==
    IF ~Has(output, "*.*")
    THEN Append(output, [db_table |-> "*.*", priv |-> <<"USAGE">>])
    ELSE output

EnsureUsage(output, ensure_usage) ==
    IF ensure_usage /\ ~Has(output, "*.*")
    THEN Append(output, [db_table |-> "*.*", priv |-> <<"USAGE">>])
    ELSE output

\* privileges_unpack(priv, mode, ensure_usage) on the privilege string itself.
privileges_unpack_text(priv, mode, ensure_usage) ==
    EnsureUsage(UnpackItems(UnpackStart, split(strip(priv, Whitespace), "/"),
                            QuoteOf(mode)),
                ensure_usage)

--------------------------------------------------------------------------
(* privileges_get on the lines SHOW GRANTS returns *)

\* ['`"] of the patterns.
Quotes == {"'", Backquote, "\""}

\* (['`"]).*\3@(['`"]).*\4 can match from p: a quote at p, the same quote
\* later on followed by @ and a quote, and that last quote once more.
IsAtHost(line, k) ==
    /\ Ch(line, k + 1) = "@"
    /\ Ch(line, k + 2) \in Quotes
    /\ In(Ch(line, k + 2), From(line, k + 3))

UserFollows(line, p) ==
    /\ Ch(line, p) \in Quotes
    /\ \E k \in (p + 1)..Len(line) : Ch(line, k) = Ch(line, p) /\ IsAtHost(line, k)

\* (['`"]).*\3 can match from p.
RoleFollows(line, p) ==
    /\ Ch(line, p) \in Quotes
    /\ In(Ch(line, p), From(line, p + 1))

IdentityFollows(line, p, maria_role) ==
    IF maria_role THEN RoleFollows(line, p) ELSE UserFollows(line, p)

\* The places of ' TO ' the privilege pattern can match at after ' ON ' at i,
\* and the places of ' ON ' it can match at.
ToPlaces(line, i, maria_role) ==
    {j \in (i + 5)..Len(line) :
        Slice(line, j, j + 3) = " TO " /\ IdentityFollows(line, j + 4, maria_role)}

OnPlaces(line, maria_role) ==
    {i \in 8..Len(line) :
        Slice(line, i, i + 3) = " ON " /\ ToPlaces(line, i, maria_role) # {}}

\* re.match of the privilege pattern is not None.
IsPrivilegeGrant(line, maria_role) ==
    Slice(line, 1, 6) = "GRANT " /\ OnPlaces(line, maria_role) # {}

\* re.match("""GRANT (.+) TO (['`"]).*""", line) is not None.
IsRoleGrant(line) ==
    /\ Slice(line, 1, 6) = "GRANT "
    /\ \E j \in 8..Len(line) :
          Slice(line, j, j + 3) = " TO " /\ Ch(line, j + 4) \in Quotes

Rightmost(S) == CHOOSE m \in S : \A n \in S : n <= m

\* Where the greedy (.+) of group 1 and of group 2 end.
OnPlace(line, maria_role) == Rightmost(OnPlaces(line, maria_role))

ToPlace(line, maria_role) ==
    Rightmost(ToPlaces(line, OnPlace(line, maria_role), maria_role))

group1(line, maria_role) == Slice(line, 7, OnPlace(line, maria_role) - 1)

group2(line, maria_role) ==
    Slice(line, OnPlace(line, maria_role) + 4, ToPlace(line, maria_role) - 1)

\* The last place the user's closing quote and @ can match at from p, and the
\* end of the host: the last occurrence of the host's quote.
AtPlace(line, p) ==
    Rightmost({k \in (p + 1)..Len(line) : Ch(line, k) = Ch(line, p) /\ IsAtHost(line, k)})

HostEnd(line, k) == k + 2 + rfind(From(line, k + 3), Ch(line, k + 2))

\* ( IDENTIFIED BY PASSWORD (['`"]).+\6)? ?(.*) on what follows the host:
\* the text of group 7.
Identified7(rest) ==
    IF /\ Slice(rest, 1, 24) = " IDENTIFIED BY PASSWORD "
       /\ Ch(rest, 25) \in Quotes
       /\ rfind(From(rest, 27), Ch(rest, 25)) # 0
    THEN From(rest, 27 + rfind(From(rest, 27), Ch(rest, 25)))
    ELSE rest

group7(line) ==
    IF Slice(line, 1, 1) = " " THEN From(line, 2) ELSE line

Group7Of(line, p) ==
    group7(Identified7(From(line, HostEnd(line, AtPlace(line, p)) + 1)))

\* The privileges of one line: split, stripped, picked, normalized.
Picked(privileges) ==
    [i \in 1..Len(privileges) |-> pick(strip(privileges[i], Whitespace))]

WithGrantOption(privileges, line, maria_role) ==
    IF ~maria_role /\ In("WITH GRANT OPTION", Group7Of(line, ToPlace(line, maria_role) + 4))
    THEN Append(privileges, "GRANT")
    ELSE privileges

LinePrivileges(line, maria_role) ==
    WithGrantOption(normalize_col_grants(Picked(split(group1(line, maria_role), ","))),
                    line, maria_role)

\* output.setdefault(db, []).extend(privileges)
DictExtend(output, db, privileges) ==
    IF Has(output, db) THEN DictSet(output, db, Tokens(output, db) \o privileges)
    ELSE DictSet(output, db, privileges)

RECURSIVE ParseGrants(_, _, _)
\* The loop of privileges_get over the lines fetched.
ParseGrants(output, grants, maria_role) ==
    IF Len(grants) = 0 THEN Returned(output)
    ELSE IF IsPrivilegeGrant(grants[1], maria_role)
    THEN ParseGrants(DictExtend(output, group2(grants[1], maria_role),
                                LinePrivileges(grants[1], maria_role)),
                     Tail(grants), maria_role)
    ELSE IF ~maria_role /\ IsRoleGrant(grants[1])
    THEN ParseGrants(output, Tail(grants), maria_role)
    ELSE Raised("InvalidPrivsError",
                "unable to parse the MySQL grant string: " \o grants[1])

\* privileges_get from the rows SHOW GRANTS returned.
privileges_get_text(grants, maria_role) == ParseGrants(<<>>, grants, maria_role)

--------------------------------------------------------------------------
(* limit_resources (module_utils/user.py) *)

\* c.lower() for one character, and s.lower().
LowerChar(c) ==
    IF In(c, UpperCase) THEN Ch(LowerCase, find(UpperCase, c)) ELSE c

RECURSIVE str_lower(_)
str_lower(s) ==
    IF Len(s) = 0 THEN "" ELSE LowerChar(Ch(s, 1)) \o str_lower(Tail(s))

Digits == "0123456789"

\* int(s) succeeds: s is a string of digits.
IsInt(s) == Len(s) > 0 /\ \A i \in 1..Len(s) : In(Ch(s, i), Digits)

RECURSIVE int(_)
\* int(s) of a string of digits.
int(s) ==
    IF Len(s) = 0 THEN 0
    ELSE 10 * int(SubSeq(s, 1, Len(s) - 1)) + (find(Digits, Ch(s, Len(s))) - 1)

\* A server_supports_alter_user that takes 5.6 as the floor of MariaDB too.
SupportsAlterUserOneFloor(version_str, version) ==
    IF ~IsInt(version[1]) THEN Raised("ValueError", version[1])
    ELSE IF Len(version) < 2 THEN Raised("IndexError", "list index out of range")
    ELSE IF ~IsInt(version[2]) THEN Raised("ValueError", version[2])
    ELSE Returned(int(version[1]) * 1000 + int(version[2]) >= 5006)

\* server_supports_alter_user from version_str and version = version_str.split('.')
SupportsAlterUser(version_str, version) ==
    IF ~IsInt(version[1]) THEN Raised("ValueError", version[1])
    ELSE IF Len(version) < 2 THEN Raised("IndexError", "list index out of range")
    ELSE IF ~IsInt(version[2]) THEN Raised("ValueError", version[2])
    ELSE IF In("mariadb", str_lower(version_str))
    THEN Returned(int(version[1]) * 1000 + int(version[2]) >= 10002)
    ELSE Returned(int(version[1]) * 1000 + int(version[2]) >= 5006)

server_supports_alter_user(version_str) ==
    SupportsAlterUser(version_str, split(version_str, "."))

\* The keys of the dictionary get_resource_limits returns.
LimitKeys ==
    {"MAX_QUERIES_PER_HOUR", "MAX_UPDATES_PER_HOUR", "MAX_CONNECTIONS_PER_HOUR",
     "MAX_USER_CONNECTIONS"}

\* get_resource_limits: the row of mysql.user; without a row (exists is
\* FALSE) it returns None.
get_resource_limits(srv) == srv.row

\* The run of limit_resources: the server, the statements sent, how it
\* ended (returned, failed after fail_json, error after an exception), and
\* the value returned.
LimitsStart(srv) ==
    [srv |-> srv, log |-> <<>>, status |-> "run", value |-> FALSE, msg |-> ""]

LimitsSent(r, statement) == [r EXCEPT !.log = Append(@, statement)]

LimitsReturn(r, value) == [r EXCEPT !.status = "returned", !.value = value]

LimitsFail(r, msg) == [r EXCEPT !.status = "failed", !.msg = msg]

LimitsError(r, error) == [r EXCEPT !.status = "error", !.msg = error]

RECURSIVE MatchFrom(_, _, _, _)
\* The loop of match_resource_limits over desired from item i on: the
\* dictionary needs_to_change as a list of (key, value), or the message of
\* fail_json.
MatchFrom(current, desired, i, needs_to_change) ==
    IF i > Len(desired) THEN Returned(needs_to_change)
    ELSE IF desired[i][1] \notin LimitKeys
    THEN Raised("fail_json", "resource_limits: key is unsupported.")
    ELSE IF ~IsInt(desired[i][2])
    THEN Raised("fail_json", "Can't convert value to integer.")
    ELSE IF int(desired[i][2]) # current.limit[desired[i][1]]
    THEN MatchFrom(current, desired, i + 1,
                   Append(needs_to_change, <<desired[i][1], int(desired[i][2])>>))
    ELSE MatchFrom(current, desired, i + 1, needs_to_change)

match_resource_limits(current, desired) ==
    IF ~current.exists THEN Returned(desired)
    ELSE MatchFrom(current, desired, 1, <<>>)

\* What ALTER USER ... WITH does on the server: the account must exist and
\* every limit must be one the server knows, with a number.
AlterUserWith(srv, needs_to_change) ==
    IF ~srv.row.exists
       \/ \E i \in 1..Len(needs_to_change) :
             needs_to_change[i][1] \notin LimitKeys \/ needs_to_change[i][2] \notin Nat
    THEN [ok |-> FALSE, srv |-> srv]
    ELSE [ok |-> TRUE,
          srv |-> [srv EXCEPT !.row.limit =
                    [k \in LimitKeys |->
                        IF \E i \in 1..Len(needs_to_change) : needs_to_change[i][1] = k
                        THEN needs_to_change[
                                CHOOSE i \in 1..Len(needs_to_change) :
                                    /\ needs_to_change[i][1] = k
                                    /\ \A j \in (i + 1)..Len(needs_to_change) :
                                          needs_to_change[j][1] # k][2]
                        ELSE srv.row.limit[k]]]]

\* cursor.execute(query, (user, host)) and return True.
LimitsExecute(r, answer) ==
    IF answer.ok THEN LimitsReturn([r EXCEPT !.srv = answer.srv], TRUE)
    ELSE LimitsError(r, "mysql_driver.Error")

\* limit_resources once needs_to_change is known.
LimitsChange(r, needs_to_change, check_mode) ==
    IF needs_to_change.status = "fail_json" THEN LimitsFail(r, needs_to_change.value)
    ELSE IF Len(needs_to_change.value) = 0 THEN LimitsReturn(r, FALSE)
    ELSE IF check_mode THEN LimitsReturn(r, TRUE)
    ELSE LimitsExecute(LimitsSent(r, "ALTER USER WITH"),
                       AlterUserWith(r.srv, needs_to_change.value))

\* limit_resources once server_supports_alter_user has answered.
LimitsSupported(r, supported, resource_limits, check_mode) ==
    IF supported.status # "returned" THEN LimitsError(r, supported.status)
    ELSE IF ~supported.value
    THEN LimitsFail(r, "The server version does not match the requirements for resource_limits parameter. See module's documentation.")
    ELSE LimitsChange(LimitsSent(r, "SELECT FROM mysql.user"),
                      match_resource_limits(get_resource_limits(r.srv), resource_limits),
                      check_mode)

limit_resources(srv, resource_limits, check_mode) ==
    LimitsSupported(LimitsSent(LimitsStart(srv), "SELECT VERSION()"),
                    server_supports_alter_user(srv.version_str),
                    resource_limits, check_mode)

--------------------------------------------------------------------------
(* The arguments the operations are called with *)

\* How many times in a row one operation is run with the same arguments.
MaxRuns == 2

\* The token lists a segment of a privilege specification may carry.
TokenSets ==
    {{"SELECT"}, {"SELECT", "INSERT"}, {"ALL"}, {"USAGE"}, {"GRANT"},
     {"SELECT", "GRANT"}}

Seg(s, t) == [db_table |-> s, priv |-> t]

\* Privilege specifications of one or two segments.
Specs ==
    {<<Seg(s, t)>> : s \in Scopes, t \in TokenSets}
    \cup {<<Seg(GLOBAL, t), Seg(DB1, u)>> : t \in TokenSets, u \in TokenSets}

\* (user, role, maria_role)
Kinds == {<<"root", FALSE, FALSE>>, <<"bob", FALSE, FALSE>>,
          <<"bob", TRUE, FALSE>>, <<"bob", TRUE, TRUE>>}

\* (append_privs, subtract_privs)
Policies == {<<FALSE, FALSE>>, <<TRUE, FALSE>>, <<FALSE, TRUE>>}

IsectOrders == {ScopeSeq, <<ScopeSeq[2], ScopeSeq[1]>>}

NoArgs ==
    [user |-> "bob", host |-> HostSeq[1], host_all |-> FALSE, password |-> None,
     encrypted |-> FALSE, plugin |-> None, plugin_hash_string |-> None,
     plugin_auth_string |-> None, priv_given |-> FALSE, spec |-> <<>>,
     ensure_usage |-> TRUE, new_priv |-> <<>>, append_privs |-> FALSE,
     subtract_privs |-> FALSE, tls_requires |-> None, check_mode |-> FALSE,
     role |-> FALSE, maria_role |-> FALSE, isect |-> ScopeSeq,
     reuse_existing_password |-> FALSE]

WithPriv(a, spec, ensure_usage) ==
    [a EXCEPT !.priv_given = TRUE, !.spec = spec, !.ensure_usage = ensure_usage,
              !.new_priv = privileges_unpack(spec, ensure_usage)]

\* Calls that differ in the privileges asked for: every specification under
\* every policy, for a user, for root and for a role.  An argument is varied
\* only where it can make a difference to the run.
PrivArgs(srv) ==
    {[WithPriv(NoArgs, spec, eu) EXCEPT
        !.user = k[1], !.role = k[2], !.maria_role = k[3],
        !.append_privs = pol[1], !.subtract_privs = pol[2],
        !.check_mode = cm, !.host_all = ha, !.isect = ord] :
     <<spec, eu, k, pol, cm, ha, ord>> \in
        {x \in Specs \X BOOLEAN \X Kinds \X Policies \X BOOLEAN \X BOOLEAN \X IsectOrders :
            /\ (Has(x[1], GLOBAL) => x[2])
            /\ (x[6] => ~x[3][2] /\ Len(user_get_hostnames(srv)) > 1)
            /\ (x[7] # ScopeSeq => ~x[5] /\ Len(privileges_unpack(x[1], x[2])) > 1)}}

\* (password, encrypted)
Passwords == {<<None, FALSE>>, <<"a", FALSE>>, <<"b", FALSE>>, <<"*A", TRUE>>, <<"a", TRUE>>}

\* (plugin, plugin_hash_string, plugin_auth_string)
Plugins == {<<None, None, None>>, <<OtherPlugin, None, None>>,
            <<OtherPlugin, "*B", None>>, <<NativePlugin, None, "a">>}

TlsRequires == {None, "SSL", "X509"}

\* Calls that differ in password, plugin and TLS requirements.
AuthArgs ==
    {[b EXCEPT
        !.password = pw[1], !.encrypted = pw[2], !.plugin = pl[1],
        !.plugin_hash_string = pl[2], !.plugin_auth_string = pl[3],
        !.tls_requires = tls, !.check_mode = cm] :
     b \in {NoArgs, WithPriv(NoArgs, <<Seg(DB1, {"SELECT"})>>, TRUE)},
     pw \in Passwords, pl \in Plugins, tls \in TlsRequires, cm \in BOOLEAN}

--------------------------------------------------------------------------
(* The state machine *)

Acct(priv, wgo, auth, plugin, tls) ==
    [exists |-> TRUE, priv |-> priv, wgo |-> wgo, auth |-> auth,
     plugin |-> plugin, tls |-> tls]

OnlyUsage == [s \in Scopes |-> {}]

\* A second account of the user, holding a privilege and the grant option on db1.
SecondAcct ==
    Acct([OnlyUsage EXCEPT ![DB1] = {"SELECT"}], {DB1}, "*A", NativePlugin, None)

Srv(old, first, second) ==
    [old |-> old, acct |-> [h \in HostSet |-> IF h = HostSeq[1] THEN first ELSE second]]

\* The servers a behaviour starts from: accounts with every combination of
\* privileges and grant options, accounts with every combination of password,
\* plugin and TLS requirement, and servers without the account.
InitServers ==
    {Srv(FALSE, Acct(p, w, "*A", NativePlugin, None), second) :
        p \in [Scopes -> SUBSET RealPrivs], w \in SUBSET Scopes,
        second \in {NoAcct, SecondAcct}}
    \cup {Srv(old, Acct([OnlyUsage EXCEPT ![GLOBAL] = {"SELECT"}], {}, auth, plugin, tls),
              NoAcct) :
        old \in BOOLEAN, auth \in {"", "*A", "*B"},
        plugin \in {NativePlugin, OtherPlugin}, tls \in {None, "SSL"}}
    \cup {Srv(old, NoAcct, second) : old \in BOOLEAN, second \in {NoAcct, SecondAcct}}

\* last: the operation run last, the server it started from, its arguments,
\* how it ended and the statements it sent.
NoRun ==
    [op |-> "none", run |-> 0, pre |-> Srv(FALSE, NoAcct, NoAcct), a |-> NoArgs,
     status |-> "none", err |-> "", changed |-> FALSE, password_changed |-> FALSE,
     msg |-> "", log |-> <<>>]

Ran(op, run, pre, a, m) ==
    [op |-> op, run |-> run, pre |-> pre, a |-> a, status |-> m.status,
     err |-> m.err, changed |-> m.changed, password_changed |-> m.password_changed,
     msg |-> m.msg, log |-> m.log]

\* user_exists
user_exists(srv, a) ==
    IF a.host_all THEN \E h \in HostSet : srv.acct[h].exists
    ELSE srv.acct[a.host].exists

\* resolved: the last call of resolve_command and how it ended.
NoQuery ==
    [implementation |-> "", version |-> "", command |-> "",
     out |-> [status |-> "none", value |-> ""]]

\* limits: a call of limit_resources; roles: a run of the role module.
NoLimits == [fn |-> "none"]

NoRoles == [op |-> "none"]

\* call: the parsing function called, its arguments, and what it gave.
NotCalled == [status |-> "none", value |-> <<>>]

NoCall == [fn |-> "none", arg |-> <<>>, out |-> NotCalled]

Init ==
    /\ server \in InitServers
    /\ last = NoRun
    /\ resolved = NoQuery
    /\ call = NoCall
    /\ limits = NoLimits
    /\ roles = NoRoles

Do(op, run, a, m) ==
    /\ server' = m.srv
    /\ last' = Ran(op, run, server, a, m)
    /\ UNCHANGED <<resolved, call, limits, roles>>

\* The module finds the user and calls user_mod.
UserMod ==
    /\ last.op = "none"
    /\ \E a \in PrivArgs(server) \cup AuthArgs :
        /\ user_exists(server, a)
        /\ Do("user_mod", 1, a, user_mod(server, a))

\* The module does not find the user and calls user_add.
UserAdd ==
    /\ last.op = "none"
    /\ \E a \in AuthArgs, ha \in BOOLEAN, reuse \in BOOLEAN :
        LET b == [a EXCEPT !.host_all = ha, !.reuse_existing_password = reuse]
        IN  /\ ~user_exists(server, b)
            /\ Do("user_add", 1, b, user_add(server, b))

\* state=absent: the module finds the user and calls user_delete.
UserDelete ==
    /\ last.op = "none"
    /\ \E ha \in BOOLEAN, cm \in BOOLEAN :
        LET a == [NoArgs EXCEPT !.host_all = ha, !.check_mode = cm]
        IN  /\ user_exists(server, a)
            /\ Do("user_delete", 1, a, user_delete(server, a))

\* The same task is run once more: the module is called with the same
\* arguments against the server as the previous run left it.
Again ==
    /\ last.op # "none"
    /\ last.run < MaxRuns
    /\ last.status = "returned"
    /\ IF user_exists(server, last.a)
       THEN IF last.op = "user_delete"
            THEN Do("user_delete", last.run + 1, last.a, user_delete(server, last.a))
            ELSE Do("user_mod", last.run + 1, last.a, user_mod(server, last.a))
       ELSE /\ last.op # "user_delete"
            /\ Do("user_add", last.run + 1, last.a, user_add(server, last.a))

Next == UserMod \/ UserAdd \/ UserDelete \/ Again

Spec == Init /\ [][Next]_vars

--------------------------------------------------------------------------
(* The state machine of the command resolver *)

\* get_server_implementation returns one of the first two; a resolver may
\* be constructed with any string.
Implementations == {"mysql", "mariadb", "percona"}

Versions ==
    {"1.0.0", "8", "8.0", "8.0.20", "8.0.22", "8.0.23", "8.2.0", "8.4.0", "8.4.1",
     "9.0.0", "10.4.23", "10.5", "10.5.1", "10.5.2", "10.6.17", "10.11.1.2"}

Commands ==
    CommandKeys
    \cup {"show master status", "SHOW master STATUS", "change master", "Master_Host",
          "reset master", "show nothing", "SHOW NOTHING", "MASTER"}

InitResolver ==
    /\ server = Srv(FALSE, NoAcct, NoAcct)
    /\ last = NoRun
    /\ resolved = NoQuery
    /\ call = NoCall
    /\ limits = NoLimits
    /\ roles = NoRoles

\* A resolver is constructed for a server and asked for one command.
Resolve ==
    /\ \E i \in Implementations, v \in Versions, c \in Commands :
          resolved' = [implementation |-> i, version |-> v, command |-> c,
                       out |-> resolve_command(i, v, c)]
    /\ UNCHANGED <<server, last, call, limits, roles>>

NextResolver == Resolve

SpecResolver == InitResolver /\ [][NextResolver]_vars

--------------------------------------------------------------------------
(* The texts the parsing functions are called with *)

\* The most privileges in one segment of a privilege string, the most tokens
\* in a list given to normalize_col_grants, the most rows of SHOW GRANTS.
MaxPrivs == 3

MaxTokens == 3

MaxRows == 2

\* A privilege as the user writes it: its name, its columns if any, what
\* stands between the name and the parenthesis, and between two columns.
Priv(name, cols, gap, colsep) ==
    [name |-> name, cols |-> cols, gap |-> gap, colsep |-> colsep]

PlainPrivs == {Priv(n, <<>>, "", "") : n \in {"SELECT", "select", "INSERT", "ALL"}}

ColumnLists ==
    {<<"a">>, <<"b", "a">>, <<"B", "A">>, <<"a", "a", "b">>, <<"colA", "colB">>,
     <<"colB", "colA">>}

ColumnPrivs ==
    {Priv(n, c, g, s) : n \in {"SELECT", "update"}, c \in ColumnLists,
                        g \in {"", " "}, s \in {",", ", "}}

MoreColumnPrivs ==
    {Priv("INSERT", <<"d", "c">>, g, ",") : g \in {"", " "}}
    \cup {Priv("REFERENCES", <<"A", "C", "B">>, " ", ", ")}

PrivLists ==
    {l \in {<<p>> : p \in PlainPrivs \cup ColumnPrivs}
           \cup {<<p, q>> : p \in PlainPrivs, q \in PlainPrivs}
           \cup {<<c, Priv("INSERT", <<>>, "", "")>> : c \in ColumnPrivs}
           \cup {<<c, d>> : c \in ColumnPrivs, d \in MoreColumnPrivs}
           \cup {<<Priv("ALL", <<>>, "", ""), c, d>> :
                    c \in ColumnPrivs, d \in MoreColumnPrivs}
           \cup {<<c, d, e>> :
                    c \in {Priv("SELECT", <<"b", "a">>, "", ",")},
                    d \in {Priv("update", <<"B", "A">>, " ", ", ")},
                    e \in MoreColumnPrivs}
           \cup {<<c, d, e, Priv("INSERT", <<>>, "", "")>> :
                    c \in {Priv("SELECT", <<"b", "a">>, "", ",")},
                    d \in {Priv("update", <<"B", "A">>, " ", ", ")},
                    e \in MoreColumnPrivs} :
        Len(l) <= MaxPrivs}

\* A segment: the scope as the user writes it, its privileges, and what
\* separates two of them.
Item(db, tbl, privs, sep) == [db |-> db, tbl |-> tbl, privs |-> privs, sep |-> sep]

ScopeTexts ==
    {<<"db1", "*">>, <<"db2", "*">>, <<"*", "*">>, <<"db1", "t1">>, <<"^db1^", "^t1^">>}

Items ==
    {Item(s[1], s[2], l, sep) : s \in ScopeTexts, l \in PrivLists, sep \in {",", ", "}}

SecondItems ==
    {Item(s[1], s[2], l, ",") :
        s \in {<<"db1", "*">>, <<"db2", "*">>, <<"*", "*">>},
        l \in {<<Priv("ALL", <<>>, "", "")>>,
               <<Priv("SELECT", <<>>, "", ""), Priv("UPDATE", <<>>, "", "")>>}}

\* Items with a column list, to stand before or after an item without.
ColumnItems ==
    {Item("db2", "t1", <<Priv("SELECT", <<"a">>, " ", ",")>>, ","),
     Item("db1", "t1", <<Priv("SELECT", <<"b", "a">>, " ", ","),
                         Priv("INSERT", <<>>, "", "")>>, ","),
     Item("db1", "*", <<Priv("update", <<"c">>, "", ",")>>, ",")}

ItemLists ==
    {<<i>> : i \in Items} \cup {<<i, j>> : i \in SecondItems, j \in SecondItems}
    \cup {<<i, j>> : i \in SecondItems, j \in ColumnItems}
    \cup {<<j, i>> : i \in SecondItems, j \in ColumnItems}
    \cup {<<i, j, k>> : i \in {Item("db1", "*", <<Priv("UPDATE", <<>>, "", "")>>, ",")},
                        j \in SecondItems, k \in ColumnItems}

PrivText(p) ==
    IF p.cols = <<>> THEN p.name
    ELSE p.name \o p.gap \o "(" \o join(p.colsep, p.cols) \o ")"

ItemText(it) ==
    it.db \o "." \o it.tbl \o ":"
          \o join(it.sep, [i \in 1..Len(it.privs) |-> PrivText(it.privs[i])])

\* The privilege string of the module's priv parameter.
PrivString(items) == join("/", [i \in 1..Len(items) |-> ItemText(items[i])])

\* Elements of the lists normalize_col_grants is given.
TokenTexts ==
    {"UPDATE", "SELECT (A)", "SELECT (B", "A)", "SELECT (B, A)", "SELECT(B,A)",
     "SELECT (^B^", "^A^)", "INSERT (C", "INSERT (^ C^", "INSERT (B)"}

RECURSIVE ListsOf(_, _)
\* The lists of at most n elements of S.
ListsOf(S, n) ==
    IF n = 0 THEN {<<>>}
    ELSE ListsOf(S, n - 1)
         \cup {Append(l, x) : l \in {m \in ListsOf(S, n - 1) : Len(m) = n - 1}, x \in S}

TokenLists == ListsOf(TokenTexts, MaxTokens)

\* A row of SHOW GRANTS: what it is, whose it is (a user or role with a
\* host, or a MariaDB role, which has none), its text, and for a privilege
\* grant the scope and the privileges the text grants.
Row(kind, whose, text, scope, privs) ==
    [kind |-> kind, whose |-> whose, text |-> text, scope |-> scope, privs |-> privs]

Rows ==
    {Row("privilege", "user", "GRANT USAGE ON *.* TO 'u'@'h'", "*.*", {"USAGE"}),
     Row("privilege", "user", "GRANT ALL PRIVILEGES ON *.* TO ^u^@^h^ WITH GRANT OPTION",
         "*.*", {"ALL", "GRANT"}),
     Row("privilege", "user", "GRANT SELECT, INSERT ON ^db1^.* TO ^u^@^h^",
         "^db1^.*", {"SELECT", "INSERT"}),
     Row("privilege", "user",
         "GRANT SELECT (^b^, ^a^), UPDATE ON ^db1^.^t1^ TO 'u'@'h' WITH GRANT OPTION",
         "^db1^.^t1^", {"SELECT (a, b)", "UPDATE", "GRANT"}),
     Row("privilege", "user",
         "GRANT USAGE ON *.* TO 'u'@'h' IDENTIFIED BY PASSWORD '*A' REQUIRE SSL",
         "*.*", {"USAGE"}),
     Row("privilege", "role", "GRANT USAGE ON *.* TO ^r1^", "*.*", {"USAGE"}),
     Row("privilege", "role", "GRANT SELECT ON ^db1^.* TO ^r1^ WITH GRANT OPTION",
         "^db1^.*", {"SELECT"}),
     Row("membership", "user", "GRANT ^r2^@^%^ TO ^u^@^h^", "", {}),
     Row("membership", "user", "GRANT r2 TO 'u'@'h' WITH ADMIN OPTION", "", {}),
     Row("membership", "role", "GRANT ^r2^ TO ^r1^", "", {}),
     Row("other", "user", "SET DEFAULT ROLE ^r2^ FOR ^u^@^h^", "", {}),
     Row("other", "user", "REVOKE SELECT ON ^db1^.* FROM ^u^@^h^", "", {}),
     Row("other", "role", "SET DEFAULT ROLE ^r2^ FOR ^r1^", "", {}),
     Row("other", "role", "REVOKE SELECT ON ^db1^.* FROM ^r1^", "", {})}

\* SHOW GRANTS returns at least one row, all of them about the same identity.
RowLists ==
    {l \in ListsOf(Rows, MaxRows) :
        Len(l) > 0 /\ \A i \in 1..Len(l) : l[i].whose = l[1].whose}

Texts(rows) == [i \in 1..Len(rows) |-> rows[i].text]

--------------------------------------------------------------------------
(* The state machine of the parsing functions: a call is drawn, then made *)

UnpackCalls ==
    {[fn |-> "privileges_unpack",
      arg |-> [items |-> l, priv |-> PrivString(l), mode |-> m, ensure_usage |-> e],
      out |-> NotCalled] : l \in ItemLists, m \in {"", "ANSI"}, e \in BOOLEAN}

NormalizeCalls ==
    {[fn |-> "normalize_col_grants", arg |-> [privileges |-> l], out |-> NotCalled] :
        l \in TokenLists}

GetCalls ==
    {[fn |-> "privileges_get",
      arg |-> [rows |-> l, grants |-> Texts(l), maria_role |-> r],
      out |-> NotCalled] : l \in RowLists, r \in BOOLEAN}

InitText ==
    /\ server = Srv(FALSE, NoAcct, NoAcct)
    /\ last = NoRun
    /\ resolved = NoQuery
    /\ limits = NoLimits
    /\ roles = NoRoles
    /\ call \in UnpackCalls \cup NormalizeCalls \cup GetCalls

Gives(out) ==
    /\ call.out = NotCalled
    /\ call' = [call EXCEPT !.out = out]
    /\ UNCHANGED <<server, last, resolved, limits, roles>>

PrivilegesUnpack ==
    /\ call.fn = "privileges_unpack"
    /\ Gives(Returned(privileges_unpack_text(call.arg.priv, call.arg.mode,
                                             call.arg.ensure_usage)))

NormalizeColGrants ==
    /\ call.fn = "normalize_col_grants"
    /\ Gives(Returned(normalize_col_grants(call.arg.privileges)))

PrivilegesGet ==
    /\ call.fn = "privileges_get"
    /\ Gives(privileges_get_text(call.arg.grants, call.arg.maria_role))

NextText == PrivilegesUnpack \/ NormalizeColGrants \/ PrivilegesGet

SpecText == InitText /\ [][NextText]_vars

--------------------------------------------------------------------------
(* The state machine of limit_resources *)

\* The most limits asked for in one call.
MaxLimits == 2

\* The servers: what SELECT VERSION() returns, and whether that server has
\* ALTER USER ... WITH (MySQL from 5.6, MariaDB from 10.2).
LimitServers ==
    {<<"5.5.62", FALSE>>, <<"5.6.10", TRUE>>, <<"5.7.30-log", TRUE>>, <<"8.0.30", TRUE>>,
     <<"5.5.68-MariaDB", FALSE>>, <<"10.1.48-MariaDB", FALSE>>, <<"10.2.0-MariaDB", TRUE>>,
     <<"10.11.6-MariaDB-log", TRUE>>, <<"5.5.5-10.4.12-MariaDB", TRUE>>, <<"8", TRUE>>}

LimitRow(exists, queries, connections) ==
    [exists |-> exists,
     limit |-> [k \in LimitKeys |->
                  IF k = "MAX_QUERIES_PER_HOUR" THEN queries
                  ELSE IF k = "MAX_USER_CONNECTIONS" THEN connections ELSE 0]]

LimitRows ==
    {LimitRow(FALSE, 0, 0), LimitRow(TRUE, 0, 0), LimitRow(TRUE, 10, 0),
     LimitRow(TRUE, 10, 5)}

DesiredLimits ==
    {l \in ListsOf({<<"MAX_QUERIES_PER_HOUR", "10">>, <<"MAX_USER_CONNECTIONS", "5">>,
                    <<"MAX_USER_CONNECTIONS", "0">>, <<"MAX_QUERIES_PER_HOUR", "x">>,
                    <<"MAX_STATEMENT_TIME", "1">>}, MaxLimits) : Len(l) > 0}

InitLimits ==
    /\ server = Srv(FALSE, NoAcct, NoAcct)
    /\ last = NoRun
    /\ resolved = NoQuery
    /\ call = NoCall
    /\ roles = NoRoles
    /\ \E s \in LimitServers, row \in LimitRows, d \in DesiredLimits, cm \in BOOLEAN :
          limits = [fn |-> "asked",
                    srv |-> [version_str |-> s[1], supports |-> s[2], row |-> row],
                    pre |-> [version_str |-> s[1], supports |-> s[2], row |-> row],
                    resource_limits |-> d, check_mode |-> cm,
                    out |-> LimitsStart(
                              [version_str |-> s[1], supports |-> s[2], row |-> row])]

\* The module calls limit_resources for the user.
LimitResources ==
    /\ limits.fn = "asked"
    /\ limits' = [limits EXCEPT
                    !.fn = "limit_resources",
                    !.out = limit_resources(limits.srv, limits.resource_limits,
                                            limits.check_mode),
                    !.srv = limit_resources(limits.srv, limits.resource_limits,
                                            limits.check_mode).srv]
    /\ UNCHANGED <<server, last, resolved, call, roles>>

NextLimits == LimitResources

SpecLimits == InitLimits /\ [][NextLimits]_vars

--------------------------------------------------------------------------
(* The role module (modules/mysql_role.py) *)

RoleName == "r1"

\* Role.__init__: a MariaDB role has no host, a MySQL role has host %.
RoleHost(mariadb) == IF mariadb THEN "" ELSE "%"

\* Role.full_name, as SHOW GRANTS spells the role.
full_name(mariadb) ==
    IF mariadb THEN Backquote \o RoleName \o Backquote
    ELSE Backquote \o RoleName \o Backquote \o "@" \o Backquote \o "%" \o Backquote

Root == <<"root", "localhost">>

\* Another role, which can be made a member like a user.
OtherRole(mariadb) == <<"r2", RoleHost(mariadb)>>

\* DbServer.get_users: the rows of SELECT User, Host FROM mysql.user, the
\* role itself among them once it is created.
get_users(srv) ==
    <<Root, <<"u1", "%">>, <<"u2", "%">>, OtherRole(srv.mariadb)>>
        \o (IF srv.exists THEN <<<<RoleName, RoleHost(srv.mariadb)>>>> ELSE <<>>)

Identity(user) ==
    Backquote \o user[1] \o Backquote
        \o (IF user[2] = "" THEN ""
            ELSE "@" \o Backquote \o user[2] \o Backquote)

\* DbServer.get_grants: the rows of SHOW GRANTS FOR the user.
ShowGrantsFor(srv, user) ==
    <<"GRANT USAGE ON *.* TO " \o Identity(user)>>
        \o (IF user \in srv.member
            THEN <<"GRANT " \o full_name(srv.mariadb) \o " TO " \o Identity(user)>>
            ELSE <<>>)

\* Role.__is_member: the full name of the role occurs in one of the rows.
is_member(full, grants) == \E i \in DOMAIN grants : In(full, grants[i])

\* Role.__get_members
get_members(srv) ==
    {user \in {get_users(srv)[i] : i \in DOMAIN get_users(srv)} :
        /\ ~(user[1] = RoleName /\ user[2] = RoleHost(srv.mariadb))
        /\ is_member(full_name(srv.mariadb), ShowGrantsFor(srv, user))}

\* MySQLQueryBuilder.role_grant and MariaDBQueryBuilder.role_grant
role_grant(mariadb, user) ==
    [op |-> "GRANT", user |-> user,
     query |-> IF mariadb
               THEN IF user[2] # "" THEN "GRANT %s TO %s@%s" ELSE "GRANT %s TO %s"
               ELSE IF user[2] # "" THEN "GRANT %s@%s TO %s@%s"
                    ELSE "GRANT %s@%s TO %s"]

\* MySQLQueryBuilder.role_revoke and MariaDBQueryBuilder.role_revoke
role_revoke(mariadb, user) ==
    [op |-> "REVOKE", user |-> user,
     query |-> IF mariadb
               THEN IF user[2] # "" THEN "REVOKE %s FROM %s@%s" ELSE "REVOKE %s FROM %s"
               ELSE IF user[2] # "" THEN "REVOKE %s@%s FROM %s@%s"
                    ELSE "REVOKE %s@%s FROM %s"]

\* The admin option when it is not given, and the answer of get_admin when
\* mysql.roles_mapping has no admin row for the role.
NoAdmin == <<>>

\* MySQLQueryBuilder.role_create ignores the admin;
\* MariaDBQueryBuilder.role_create names it when it is given.
role_create(mariadb, admin) ==
    [op |-> "CREATE ROLE", user |-> <<RoleName, RoleHost(mariadb)>>,
     admin |-> IF mariadb THEN admin ELSE NoAdmin,
     query |-> IF ~mariadb \/ admin = NoAdmin THEN "CREATE ROLE %s"
               ELSE IF admin[2] # "" THEN "CREATE ROLE %s WITH ADMIN %s@%s"
               ELSE "CREATE ROLE %s WITH ADMIN %s"]

\* What one statement of the role module does on the server.
RoleApply(srv, st) ==
    CASE st.op = "CREATE ROLE" ->
            \* MariaDB records the admin of the role: the one named, or the
            \* user who creates it.
            [srv EXCEPT !.exists = TRUE,
                        !.admin = IF ~srv.mariadb THEN NoAdmin
                                  ELSE IF st.admin = NoAdmin THEN Root ELSE st.admin]
      [] st.op = "GRANT" -> [srv EXCEPT !.member = @ \cup {st.user}]
      [] st.op = "REVOKE" -> [srv EXCEPT !.member = @ \ {st.user}]
      [] OTHER -> srv

\* A run of a method of Role: the server, the statements sent, changed, the
\* warnings given and the exception that left the method ("" when none).
RoleStart(srv) ==
    [srv |-> srv, log |-> <<>>, changed |-> FALSE, done |-> FALSE,
     warnings |-> <<>>, error |-> ""]

\* self.cursor.execute
RoleExecute(m, st) ==
    [m EXCEPT !.srv = RoleApply(m.srv, st), !.log = Append(@, st)]

\* MySQLRoleImpl.set_default_role_all; MariaDBRoleImpl.set_default_role_all
\* does nothing.
SetDefaultRoleAll(m, user) ==
    IF m.srv.mariadb THEN m
    ELSE RoleExecute(m,
            [op |-> "SET DEFAULT ROLE ALL TO", user |-> user,
             query |-> IF user[2] # "" THEN "SET DEFAULT ROLE ALL TO %s@%s"
                       ELSE "SET DEFAULT ROLE ALL TO %s"])

\* for user in users: if user not in self.members: ... (mysql_role.py
\* 766-775); set_default_role_all is not read.
RECURSIVE GrantMissing(_, _, _, _, _, _)
GrantMissing(m, users, members, i, check_mode, set_default_role_all) ==
    IF m.done \/ i > Len(users) THEN m
    ELSE IF users[i] \in members
    THEN GrantMissing(m, users, members, i + 1, check_mode, set_default_role_all)
    ELSE IF check_mode THEN [m EXCEPT !.changed = TRUE, !.done = TRUE]
    ELSE GrantMissing(
            [SetDefaultRoleAll(RoleExecute(m, role_grant(m.srv.mariadb, users[i])),
                               users[i])
                EXCEPT !.changed = TRUE],
            users, members, i + 1, check_mode, set_default_role_all)

\* Role.__remove_member
remove_member(m, user, check_mode) ==
    IF check_mode THEN [m EXCEPT !.changed = TRUE]
    ELSE [RoleExecute(m, role_revoke(m.srv.mariadb, user)) EXCEPT !.changed = TRUE]

Listed(users) == {users[i] : i \in DOMAIN users}

\* for user in self.members: if user not in users and user !=
\* ('root', 'localhost'): ... (mysql_role.py 780-782), the members taken in
\* the order of mysql.user.
RECURSIVE RemoveOthersFrom(_, _, _, _, _, _)
RemoveOthersFrom(m, users, members, order, i, check_mode) ==
    IF i > Len(order) THEN m
    ELSE IF order[i] \in members /\ order[i] \notin Listed(users) /\ order[i] # Root
    THEN RemoveOthersFrom(remove_member(m, order[i], check_mode), users, members,
                          order, i + 1, check_mode)
    ELSE RemoveOthersFrom(m, users, members, order, i + 1, check_mode)

\* An update_members that removes the other members whatever append_members is.
RemoveOthersAlways(m, users, members, order, check_mode, append_members) ==
    IF m.done THEN m
    ELSE RemoveOthersFrom(m, users, members, order, 1, check_mode)

\* if append_members: return changed (mysql_role.py 777-784)
RemoveOthers(m, users, members, order, check_mode, append_members) ==
    IF m.done \/ append_members THEN m
    ELSE RemoveOthersFrom(m, users, members, order, 1, check_mode)

\* Role.update_members
update_members(m, users, members, order, check_mode, append_members, set_default_role_all) ==
    IF users = <<>> THEN m
    ELSE [RemoveOthers(GrantMissing(m, users, members, 1, check_mode,
                                    set_default_role_all),
                       users, members, order, check_mode, append_members)
            EXCEPT !.done = FALSE]

\* for user in users: if user in self.members: ... (mysql_role.py 800-802)
RECURSIVE RemoveListed(_, _, _, _, _)
RemoveListed(m, users, members, i, check_mode) ==
    IF i > Len(users) THEN m
    ELSE IF users[i] \in members
    THEN RemoveListed(remove_member(m, users[i], check_mode), users, members, i + 1,
                      check_mode)
    ELSE RemoveListed(m, users, members, i + 1, check_mode)

\* Role.remove_members
remove_members(m, users, members, check_mode) ==
    IF users = <<>> THEN m ELSE RemoveListed(m, users, members, 1, check_mode)

\* MariaDBRoleImpl.get_admin: the row of mysql.roles_mapping with
\* Admin_option = 'Y', None (NoAdmin) when there is none.
get_admin(srv) == srv.admin

\* MariaDBRoleImpl.set_admin: the warning is built from current_admin[0] and
\* current_admin[1], which raises TypeError when current_admin is None.
\* MySQLRoleImpl.set_admin does nothing.
set_admin(m, admin) ==
    IF ~m.srv.mariadb THEN m
    ELSE LET sent == RoleExecute(m, [op |-> "SELECT", user |-> <<RoleName, "">>,
                                     query |-> "SELECT User, Host FROM mysql.roles_mapping"])
         IN  IF admin = get_admin(m.srv) THEN sent
             ELSE IF get_admin(m.srv) = NoAdmin THEN [sent EXCEPT !.error = "TypeError"]
             ELSE [sent EXCEPT !.warnings = Append(@, "admin ignored")]

\* if admin: self.role_impl.set_admin(admin) (mysql_role.py 867-868)
SetAdminIfGiven(m, admin) == IF admin = NoAdmin THEN m ELSE set_admin(m, admin)

\* Role.add, called without privileges; the role does not exist and
\* self.members is the empty set.
Role_add(srv, a) ==
    IF a.check_mode THEN [RoleStart(srv) EXCEPT !.changed = ~srv.exists]
    ELSE [update_members(RoleExecute(RoleStart(srv), role_create(srv.mariadb, a.admin)),
                         a.members, {}, get_users(srv), FALSE, FALSE,
                         a.set_default_role_all)
            EXCEPT !.changed = TRUE]

\* if users: ... (mysql_role.py 852-859)
UpdateMembership(srv, a) ==
    IF a.members = <<>> THEN RoleStart(srv)
    ELSE IF a.detach_members
    THEN remove_members(RoleStart(srv), a.members, get_members(srv), a.check_mode)
    ELSE update_members(RoleStart(srv), a.members, get_members(srv), get_users(srv),
                        a.check_mode, a.append_members, a.set_default_role_all)

\* Role.update, called without privileges.
Role_update(srv, a) == SetAdminIfGiven(UpdateMembership(srv, a), a.admin)

--------------------------------------------------------------------------
(* The state machine of the role module *)

\* The most members one run names.
MaxMembers == 2

\* The users and roles a run can name as members: those of mysql.user.
Nameable(mariadb) == {Root, <<"u1", "%">>, <<"u2", "%">>, OtherRole(mariadb)}

\* The servers a behaviour starts from: without the role, or with the role
\* and any set of members.
\* The admins mysql.roles_mapping can record for the role: MySQL records
\* none; on MariaDB the row can be missing.
RoleAdmins(mariadb) == IF mariadb THEN {NoAdmin, Root, <<"u1", "%">>} ELSE {NoAdmin}

RoleServers ==
    {[mariadb |-> mdb, exists |-> FALSE, member |-> {}, admin |-> NoAdmin] :
        mdb \in BOOLEAN}
    \cup UNION {{[mariadb |-> mdb, exists |-> TRUE, member |-> ms, admin |-> ad] :
                    ms \in SUBSET {Root, <<"u1", "%">>, <<"u2", "%">>},
                    ad \in RoleAdmins(mdb)} : mdb \in BOOLEAN}
    \cup UNION {{[mariadb |-> mdb, exists |-> TRUE, member |-> {OtherRole(mdb)} \cup ms,
                   admin |-> ad] :
                    ms \in SUBSET {Root, <<"u1", "%">>},
                    ad \in RoleAdmins(mdb)} : mdb \in BOOLEAN}

\* The arguments of a run: append_members and detach_members exclude each
\* other, admin excludes members, append_members and detach_members, and
\* main accepts an admin (a user of mysql.user) on MariaDB only.
RoleArgs(mariadb) ==
    {a \in [members : ListsOf(Nameable(mariadb), MaxMembers), check_mode : BOOLEAN,
            append_members : BOOLEAN, detach_members : BOOLEAN,
            set_default_role_all : BOOLEAN, admin : {NoAdmin}] :
        ~(a.append_members /\ a.detach_members)}
    \cup (IF mariadb
          THEN [members : {<<>>}, check_mode : BOOLEAN, append_members : {FALSE},
                detach_members : {FALSE}, set_default_role_all : BOOLEAN,
                admin : {Root, <<"u1", "%">>, <<"u2", "%">>}]
          ELSE {})

NoRoleArgs ==
    [members |-> <<>>, check_mode |-> FALSE, append_members |-> FALSE,
     detach_members |-> FALSE, set_default_role_all |-> TRUE, admin |-> NoAdmin]

InitRole ==
    /\ server = Srv(FALSE, NoAcct, NoAcct)
    /\ last = NoRun
    /\ resolved = NoQuery
    /\ call = NoCall
    /\ limits = NoLimits
    /\ \E srv \in RoleServers :
          roles = [op |-> "none", run |-> 0, srv |-> srv, pre |-> srv,
                   a |-> NoRoleArgs, members |-> {}, changed |-> FALSE, log |-> <<>>,
                   warnings |-> <<>>, error |-> ""]

RoleRan(op, a, m) ==
    /\ roles' = [op |-> op, run |-> roles.run + 1, srv |-> m.srv, pre |-> roles.srv,
                 a |-> a, members |-> get_members(roles.srv), changed |-> m.changed,
                 log |-> m.log, warnings |-> m.warnings, error |-> m.error]
    /\ UNCHANGED <<server, last, resolved, call, limits>>

\* state=present and the role does not exist: main calls Role.add.
RoleAdd ==
    /\ roles.op = "none"
    /\ ~roles.srv.exists
    /\ \E a \in RoleArgs(roles.srv.mariadb) : RoleRan("add", a, Role_add(roles.srv, a))

\* state=present and the role exists: main calls Role.update.
RoleUpdate ==
    /\ roles.op = "none"
    /\ roles.srv.exists
    /\ \E a \in RoleArgs(roles.srv.mariadb) :
          RoleRan("update", a, Role_update(roles.srv, a))

\* The same task is run once more, against the server as the previous run
\* left it.
RoleAgain ==
    /\ roles.op # "none"
    /\ roles.run < MaxRuns
    /\ IF roles.srv.exists
       THEN RoleRan("update", roles.a, Role_update(roles.srv, roles.a))
       ELSE RoleRan("add", roles.a, Role_add(roles.srv, roles.a))

NextRole == RoleAdd \/ RoleUpdate \/ RoleAgain

SpecRole == InitRole /\ [][NextRole]_vars

--------------------------------------------------------------------------
(* mysql_sha256_password_hash (module_utils/implementations/mysql/hash.py) *)

\* str(n) for a natural number.
RECURSIVE str(_)
str(n) == IF n < 10 THEN Ch(Digits, n + 1) ELSE str(n \div 10) \o Ch(Digits, (n % 10) + 1)

\* '{0:>03}'.format(n): n right-aligned in three places, filled with zeros.
RECURSIVE RightAligned(_, _)
RightAligned(s, width) == IF Len(s) >= width THEN s ELSE RightAligned("0" \o s, width)

\* _sha256_digest: the SHA-crypt text of key and salt after loops rounds.
\* hashlib.sha256 is left uninterpreted: the text is denoted by the inputs
\* it is computed from, which are all the function reads.
sha256_digest(key, salt, loops) ==
    "sha256crypt(" \o key \o "," \o salt \o "," \o str(loops) \o ")"

\* A mysql_sha256_password_hash that refuses short salts only.
HashUnlessSaltShort(password, salt) ==
    IF Len(salt) < 20
    THEN [status |-> "ValueError", value |-> "Salt must be 20 characters long.",
          digests |-> 0]
    ELSE [status |-> "returned",
          value |-> "$A$" \o RightAligned(str(5), 3) \o "$" \o salt
                        \o sha256_digest(password, salt, 1000 * 5),
          digests |-> 1]

\* mysql_sha256_password_hash; digests counts the calls of _sha256_digest.
mysql_sha256_password_hash(password, salt) ==
    IF Len(salt) # 20
    THEN [status |-> "ValueError", value |-> "Salt must be 20 characters long.",
          digests |-> 0]
    ELSE [status |-> "returned",
          value |-> "$A$" \o RightAligned(str(5), 3) \o "$" \o salt
                        \o sha256_digest(password, salt, 1000 * 5),
          digests |-> 1]

--------------------------------------------------------------------------
(* The state machine of mysql_sha256_password_hash *)

HashPasswords == {"", "a", "pw", "secret", "Secret", "a,b"}

\* Salts of 0, 1, 19, 20, 21 and 40 characters.
HashSalts ==
    {"", "s", "abcdefghijklmnopqrs", "abcdefghijklmnopqrst", "01234567890123456789",
     "AbCdEfGhIjKlMnOpQrSt", "abcdefghijklmnopqrstu", "0123456789012345678",
     "abcdefghijklmnopqrstabcdefghijklmnopqrst"}

InitHash ==
    /\ server = Srv(FALSE, NoAcct, NoAcct)
    /\ last = NoRun
    /\ resolved = NoQuery
    /\ limits = NoLimits
    /\ roles = NoRoles
    /\ \E password \in HashPasswords, salt \in HashSalts :
          call = [fn |-> "none", arg |-> <<password, salt>>, calls |-> 0,
                  first |-> [status |-> "none", value |-> "", digests |-> 0],
                  out |-> [status |-> "none", value |-> "", digests |-> 0]]

\* The first call with the password and the salt.
Hash ==
    /\ call.calls = 0
    /\ call' = [call EXCEPT
                  !.fn = "mysql_sha256_password_hash", !.calls = 1,
                  !.first = mysql_sha256_password_hash(call.arg[1], call.arg[2]),
                  !.out = mysql_sha256_password_hash(call.arg[1], call.arg[2])]
    /\ UNCHANGED <<server, last, resolved, limits, roles>>

\* Another call with the same password and salt.
HashAgain ==
    /\ call.calls = 1
    /\ call' = [call EXCEPT
                  !.calls = 2,
                  !.out = mysql_sha256_password_hash(call.arg[1], call.arg[2])]
    /\ UNCHANGED <<server, last, resolved, limits, roles>>

NextHash == Hash \/ HashAgain

SpecHash == InitHash /\ [][NextHash]_vars

--------------------------------------------------------------------------
(* What the last run did, read from its log *)

\* The statements privileges_grant and privileges_revoke sent in the last run.
PrivilegeLog ==
    {last.log[i] : i \in {j \in DOMAIN last.log :
        last.log[j].by \in {"privileges_grant", "privileges_revoke"}}}

\* Those of a kind in ops, for host h at scope s.
IssuedAt(ops, h, s) ==
    {st \in PrivilegeLog : st.op \in ops /\ st.host = h /\ st.scope = s}

\* The kinds of statement the privilege reconciliation of the last run sent.
IssuedOps == {st.op : st \in PrivilegeLog}

\* The tokens the GRANT statements of the last run carry for h at s; a
\* trailing WITH GRANT OPTION is the GRANT token.
Granted(h, s) ==
    UNION {st.privs \cup (IF st.wgo THEN {"GRANT"} ELSE {}) :
             st \in IssuedAt({"GRANT"}, h, s)}

\* The tokens the last run revoked for h at s; REVOKE GRANT OPTION is the
\* GRANT token.
Revoked(h, s) ==
    UNION {st.privs : st \in IssuedAt({"REVOKE"}, h, s)}
    \cup (IF IssuedAt({"REVOKE GRANT OPTION"}, h, s) # {} THEN {"GRANT"} ELSE {})

\* The hosts the last run of user_mod went through, had it not stopped early.
RunHosts ==
    IF last.a.host_all /\ ~last.a.role
    THEN {h \in HostSet : last.pre.acct[h].exists}
    ELSE {last.a.host}

\* The current privilege map of host h as the last run read it.
Current(h) == privileges_get(last.pre.acct[h], last.a.maria_role)

CurrentTokens(h, s) == IF Has(Current(h), s) THEN Tokens(Current(h), s) ELSE {}

\* The desired privilege map of the last run.
Desired == last.a.new_priv

MapEq(p, q) ==
    /\ Keys(p) = Keys(q)
    /\ \A k \in Keys(p) : Tokens(p, k) = Tokens(q, k)

RanUserMod == last.op = "user_mod"

RealRun == ~last.a.check_mode

\* The last call asks for privileges and for no password and no plugin, and
\* the TLS requirements it asks for are those the accounts have.
PrivilegesOnly ==
    /\ last.a.priv_given
    /\ ~Truthy(last.a.password)
    /\ ~Truthy(last.a.plugin)
    /\ \A h \in RunHosts : last.a.role \/ last.pre.acct[h].tls = last.a.tls_requires

PrivilegeOps == {"GRANT", "REVOKE", "REVOKE GRANT OPTION"}

\* A GRANT statement carries the tokens g; when g is GRANT alone the
\* statement names USAGE, which stands for no privilege, to carry the option.
GrantedIs(h, s, g) ==
    \/ Granted(h, s) = g
    \/ g = {"GRANT"} /\ Granted(h, s) = {"GRANT", "USAGE"}

--------------------------------------------------------------------------
(* Check mode *)

\* C1: with check mode on, user_add, user_mod and user_delete send no
\* mutating statement, whatever the server state and the arguments.
C1_CheckModeSendsNoMutatingStatement ==
    (last.op \in {"user_add", "user_mod", "user_delete"} /\ last.a.check_mode)
        => \A i \in DOMAIN last.log : ~IsMutating(last.log[i])

\* C2: the changed value user_mod returns in check mode is the one a real run
\* from the same server state with the same arguments returns.
C2_CheckModeChangedEqualsRealChanged ==
    (RanUserMod /\ last.a.check_mode /\ last.status = "returned"
     /\ user_mod(last.pre, [last.a EXCEPT !.check_mode = FALSE]).status = "returned")
        => last.changed
             = user_mod(last.pre, [last.a EXCEPT !.check_mode = FALSE]).changed

--------------------------------------------------------------------------
(* The three policies *)

\* C3: under REPLACE, when the desired map equals the current map of every
\* account the run goes through, user_mod sends no GRANT and no REVOKE and
\* returns changed = false (nothing but privileges being asked for).
C3_ReplaceEqualMapsIsNoOp ==
    (RanUserMod /\ PrivilegesOnly /\ Replace(last.a)
     /\ \A h \in RunHosts : MapEq(Desired, Current(h)))
        => /\ IssuedOps \cap PrivilegeOps = {}
           /\ last.status = "returned"
           /\ ~last.changed

\* A real REPLACE run whose desired map, grant option on db1 included, is
\* what the account holds.
C3_Witness ==
    /\ RanUserMod /\ PrivilegesOnly /\ Replace(last.a) /\ RealRun
    /\ \A h \in RunHosts : MapEq(Desired, Current(h))
    /\ Has(Desired, DB1)
    /\ Tokens(Desired, DB1) = {"SELECT", "GRANT"}
    /\ last.status = "returned"

\* The tokens APPEND has to grant for h at s: the desired tokens the account
\* lacks when it holds the scope, all desired tokens when it does not.
AppendExpected(h, s) ==
    IF Has(Current(h), s)
    THEN Tokens(Desired, s) \ Tokens(Current(h), s)
    ELSE Tokens(Desired, s)

C5_SubtractRevokesTheIntersection ==
    (RanUserMod /\ last.a.priv_given /\ last.a.subtract_privs /\ RealRun)
        => /\ "GRANT" \notin IssuedOps
           /\ last.status = "returned"
           /\ \A h \in RunHosts : \A s \in Keys(Desired) :
                /\ Revoked(h, s) = Tokens(Desired, s) \cap CurrentTokens(h, s)
                /\ Tokens(Desired, s) \cap CurrentTokens(h, s) = {}
                     => IssuedAt(PrivilegeOps, h, s) = {}

\* The scopes of the last REPLACE run that both maps of host h name.
SharedScopes(h) == Keys(Desired) \cap Keys(Current(h))

\* The tokens of s only in the desired map, and only in the current map of h.
OnlyDesired(h, s) == Tokens(Desired, s) \ Tokens(Current(h), s)

OnlyCurrent(h, s) == Tokens(Current(h), s) \ Tokens(Desired, s)

\* A real REPLACE run of user_mod that returned.
ReplaceRan ==
    RanUserMod /\ last.a.priv_given /\ Replace(last.a) /\ RealRun
    /\ last.status = "returned"

\* C6, as the specification states it: under REPLACE, for every scope in
\* both maps, the tokens granted are exactly those only in desired and the
\* tokens revoked exactly those only in current.
C6_ReplaceAppliesTheSymmetricDifference ==
    ReplaceRan =>
        \A h \in RunHosts : \A s \in SharedScopes(h) :
            /\ GrantedIs(h, s, OnlyDesired(h, s))
            /\ Revoked(h, s) = OnlyCurrent(h, s)

\* The tokens REPLACE revokes at a shared scope: those only in current,
\* but only GRANT and PROXY among them when ALL is being granted.
ReplaceRevokes(h, s) ==
    IF "ALL" \in OnlyDesired(h, s) \/ "ALL PRIVILEGES" \in OnlyDesired(h, s)
    THEN OnlyCurrent(h, s) \cap {"GRANT", "PROXY"}
    ELSE OnlyCurrent(h, s)

\* C6, amended: in a REPLACE run that completes, for every scope in both
\* maps the tokens granted are exactly those only in desired, and the tokens
\* revoked are those only in current, except that when ALL is among the
\* tokens granted only GRANT and PROXY are revoked; in a run that does not
\* complete nothing else is granted or revoked.  With current *.*: {SELECT}
\* and desired *.*: {SELECT, INSERT} the run grants INSERT on *.*, revokes
\* nothing and returns changed = true.
C6_ReplaceDifferenceSparesAll ==
    (RanUserMod /\ last.a.priv_given /\ Replace(last.a) /\ RealRun) =>
        \A h \in RunHosts : \A s \in SharedScopes(h) :
            /\ last.status = "returned" =>
                 /\ GrantedIs(h, s, OnlyDesired(h, s))
                 /\ Revoked(h, s) = ReplaceRevokes(h, s)
            /\ Granted(h, s) \subseteq OnlyDesired(h, s) \cup {"USAGE"}
            /\ Revoked(h, s) \subseteq ReplaceRevokes(h, s)
            /\ (/\ Tokens(Current(h), s) = {"SELECT"}
                /\ Tokens(Desired, s) = {"SELECT", "INSERT"}
                /\ Keys(Current(h)) = {s} /\ Keys(Desired) = {s})
               => /\ Granted(h, s) = {"INSERT"}
                  /\ Revoked(h, s) = {}
                  /\ last.status = "returned" /\ last.changed

\* The run of the example: current *.*: {SELECT}, desired *.*: {SELECT, INSERT}.
C6_Witness ==
    /\ ReplaceRan
    /\ MapEq(Current(last.a.host), <<Seg(GLOBAL, {"SELECT"})>>)
    /\ MapEq(Desired, <<Seg(GLOBAL, {"SELECT", "INSERT"})>>)
    /\ Granted(last.a.host, GLOBAL) = {"INSERT"}
    /\ last.changed

\* C7: under REPLACE, when the specification for root does not mention *.*,
\* no statement of user_mod revokes root's privileges on *.* or on any other
\* scope the specification omits.
C7_RootKeepsOmittedScopes ==
    (RanUserMod /\ last.a.priv_given /\ Replace(last.a) /\ last.a.user = "root"
     /\ ~Has(last.a.spec, GLOBAL))
        => \A h \in RunHosts : \A s \in Scopes \ Keys(last.a.spec) :
              IssuedAt({"REVOKE", "REVOKE GRANT OPTION"}, h, s) = {}

--------------------------------------------------------------------------
(* The changed flag *)

WholeScopeChanged ==
    \E h \in RunHosts : \E s \in Scopes :
        \/ ~Has(Desired, s) /\ IssuedAt({"REVOKE"}, h, s) # {}
        \/ ~Has(Current(h), s) /\ IssuedAt({"GRANT"}, h, s) # {}

\* The privilege map of some account read back after the run differs from
\* the one read before it.
MapChanged ==
    \E h \in RunHosts :
        Current(h) # privileges_get(server.acct[h], last.a.maria_role)

--------------------------------------------------------------------------
(* Dialect resolution *)

Asked == resolved.out.status # "none"

\* The floors of implementation i under key k that are at or below version v.
FloorsAtOrBelow(i, v, k) ==
    {e \in commands[k] :
        /\ e.impl = i /\ e.v # "default"
        /\ VersionGe(LooseVersion(v), LooseVersion(e.v))}

\* The entry with the greatest floor among a non-empty set of entries.
Greatest(entries) ==
    CHOOSE e \in entries :
        \A f \in entries : VersionGe(LooseVersion(e.v), LooseVersion(f.v))

ResolvedTo(i, v, c, cmd) ==
    (resolved.implementation = i /\ resolved.version = v /\ resolved.command = c)
        => resolved.out = Returned(cmd)

\* C9: for an implementation I and a version V, resolve_command returns the
\* dialect string of I's entry with the greatest floor at or below V, and
\* I's default entry when no floor of I is at or below V; the key is matched
\* whatever its case.  The four examples of the specification hold.
C9_ResolvesToGreatestFloor ==
    /\ (Asked /\ upper(resolved.command) \in CommandKeys
        /\ resolved.implementation \in {"mysql", "mariadb"})
         => resolved.out =
              Returned(
                IF FloorsAtOrBelow(resolved.implementation, resolved.version,
                                   upper(resolved.command)) # {}
                THEN Greatest(FloorsAtOrBelow(resolved.implementation,
                                              resolved.version,
                                              upper(resolved.command))).cmd
                ELSE (CHOOSE e \in commands[upper(resolved.command)] :
                        e.impl = resolved.implementation /\ e.v = "default").cmd)
    /\ ResolvedTo("mysql", "8.0.20", "SHOW MASTER STATUS", "SHOW MASTER STATUS")
    /\ ResolvedTo("mysql", "8.0.20", "show master status", "SHOW MASTER STATUS")
    /\ ResolvedTo("mysql", "8.2.0", "SHOW MASTER STATUS", "SHOW BINARY LOG STATUS")
    /\ ResolvedTo("mariadb", "10.5.2", "SHOW MASTER STATUS", "SHOW BINLOG STATUS")
    /\ ResolvedTo("mysql", "8.4.1", "CHANGE MASTER", "CHANGE REPLICATION SOURCE")

\* A key given in lower case was resolved to a renamed command at a version
\* above the floor.
C9_Witness ==
    /\ resolved.implementation = "mysql" /\ resolved.version = "8.4.1"
    /\ resolved.command = "change master"
    /\ resolved.out = Returned("CHANGE REPLICATION SOURCE")

\* C10: resolve_command fails with 'Unsupported command: <KEY>' when the
\* upper-cased key is not in the table; for a key of the table it never ends
\* in a KeyError for an implementation with an entry under the key, every
\* such implementation having a default entry there.
C10_UnsupportedCommandIsTheOnlyError ==
    /\ (Asked /\ upper(resolved.command) \notin CommandKeys)
         => resolved.out =
              Raised("ValueError", "Unsupported command: " \o upper(resolved.command))
    /\ (Asked /\ upper(resolved.command) \in CommandKeys
        /\ \E e \in commands[upper(resolved.command)] :
              e.impl = resolved.implementation)
         => resolved.out.status = "returned"
    /\ \A k \in CommandKeys : \A e \in commands[k] :
         \E d \in commands[k] : d.impl = e.impl /\ d.v = "default"

\* A key that is in no case in the table was asked for in lower case.
C10_Witness ==
    /\ resolved.command = "show nothing"
    /\ resolved.out = Raised("ValueError", "Unsupported command: SHOW NOTHING")

--------------------------------------------------------------------------
(* Privilege strings *)

\* A call of privileges_unpack that has been made.
Unpacked == call.fn = "privileges_unpack" /\ call.out # NotCalled

\* A name as the claim has it in a scope: the star bare, any other name
\* between identifier quotes.
Wrapped(name, mode) ==
    IF name = "*" THEN "*"
    ELSE QuoteOf(mode) \o strip(name, {Backquote}) \o QuoteOf(mode)

ExpectedScope(it, mode) == Wrapped(it.db, mode) \o "." \o Wrapped(it.tbl, mode)

\* What stands between the commas of a segment's privilege list, in upper case.
ExpectedTokens(it) ==
    [i \in 1..Len(it.privs) |->
        str_upper((IF i > 1 THEN From(it.sep, 2) ELSE "") \o PrivText(it.privs[i]))]

NoColumns(items) ==
    \A i \in 1..Len(items) : \A j \in 1..Len(items[i].privs) :
        items[i].privs[j].cols = <<>>

NamesGlobal(items) == \E i \in 1..Len(items) : items[i].db = "*" /\ items[i].tbl = "*"

\* The segment i is the last one of its scope.
LastOfScope(items, i) ==
    \A j \in (i + 1)..Len(items) :
        <<items[j].db, items[j].tbl>> # <<items[i].db, items[i].tbl>>

UsageAdded(a) == a.ensure_usage /\ ~NamesGlobal(a.items)

\* C11: privileges_unpack gives one scope per segment, the concrete names
\* of the scope between identifier quotes and the star bare, mapped to the
\* upper-cased tokens of the segment's privilege list, and adds *.*: [USAGE]
\* exactly when ensure_usage is true and no segment names *.*;
\* 'db1.*:SELECT,UPDATE/db2.*:ALL' gives
\* {`db1`.*: [SELECT, UPDATE], `db2`.*: [ALL], *.*: [USAGE]}.
C11_UnpackGivesQuotedScopesAndUsage ==
    (Unpacked /\ NoColumns(call.arg.items))
        => /\ call.out.status = "returned"
           /\ Keys(call.out.value)
                = {ExpectedScope(call.arg.items[i], call.arg.mode) :
                        i \in 1..Len(call.arg.items)}
                  \cup (IF UsageAdded(call.arg) THEN {"*.*"} ELSE {})
           /\ \A i \in 1..Len(call.arg.items) :
                LastOfScope(call.arg.items, i)
                    => Tokens(call.out.value,
                              ExpectedScope(call.arg.items[i], call.arg.mode))
                         = ExpectedTokens(call.arg.items[i])
           /\ UsageAdded(call.arg) => Tokens(call.out.value, "*.*") = <<"USAGE">>
           /\ (call.arg.priv = "db1.*:SELECT,UPDATE/db2.*:ALL"
                /\ call.arg.ensure_usage /\ call.arg.mode = "")
                => call.out.value
                     = <<[db_table |-> "^db1^.*", priv |-> <<"SELECT", "UPDATE">>],
                         [db_table |-> "^db2^.*", priv |-> <<"ALL">>],
                         [db_table |-> "*.*", priv |-> <<"USAGE">>]>>

\* The claim's example has been unpacked, and USAGE was added to it.
C11_Witness ==
    /\ Unpacked
    /\ call.arg.priv = "db1.*:SELECT,UPDATE/db2.*:ALL"
    /\ call.arg.ensure_usage
    /\ Len(call.out.value) = 3
    /\ Has(call.out.value, "*.*")

\* The columns written in a token, between its first '(' and its last ')'.
ColumnsIn(token) ==
    {strip(c, Whitespace) :
        c \in {split(Slice(token, find(token, "(") + 1, rfind(token, ")") - 1), ",")[k] :
                  k \in 1..Len(split(Slice(token, find(token, "(") + 1,
                                            rfind(token, ")") - 1), ","))}}

\* The token is the privilege p whole: its name first, its column list, if
\* it has one, between one pair of parentheses that ends the token.
IsWhole(token, p) ==
    IF p.cols = <<>> THEN strip(token, Whitespace) = str_upper(p.name)
    ELSE /\ Slice(token, 1, Len(p.name)) = str_upper(p.name)
         /\ Cardinality(Occurrences(token, "(")) = 1
         /\ Occurrences(token, ")") = {Len(token)}
         /\ ColumnsIn(token) = {str_upper(p.cols[k]) : k \in 1..Len(p.cols)}

\* C12: privileges_unpack splits a privilege list only at the commas outside
\* parentheses: the list gives one token per privilege, each column list
\* whole inside its privilege's token, however many column privileges the
\* list holds; SELECT(colA,colB),INSERT gives two tokens. The lists meant are
\* those of a string of one segment and, in a longer string, those of the
\* segments that hold a column list.
C12_ColumnListsAreKeptWhole ==
    Unpacked
        => \A i \in 1..Len(call.arg.items) :
             (/\ LastOfScope(call.arg.items, i)
              /\ (Len(call.arg.items) = 1 \/ ~NoColumns(<<call.arg.items[i]>>)))
                => /\ Len(Tokens(call.out.value,
                                  ExpectedScope(call.arg.items[i], call.arg.mode)))
                        = Len(call.arg.items[i].privs)
                   /\ \A j \in 1..Len(call.arg.items[i].privs) :
                        IsWhole(Tokens(call.out.value,
                                       ExpectedScope(call.arg.items[i], call.arg.mode))[j],
                                call.arg.items[i].privs[j])

\* A list of three column privileges has been unpacked into three tokens.
C12_Witness ==
    /\ Unpacked
    /\ Len(call.arg.items[1].privs) = 3
    /\ \A j \in 1..3 : Len(call.arg.items[1].privs[j].cols) > 1
    /\ Len(call.out.value[1].priv) = 3

--------------------------------------------------------------------------
(* Column privileges: the desired side against the current side *)

RECURSIVE Distinct(_)
\* The elements of a list, each once.
Distinct(xs) ==
    IF Len(xs) = 0 THEN <<>>
    ELSE IF \E k \in 2..Len(xs) : xs[k] = xs[1] THEN Distinct(Tail(xs))
    ELSE <<xs[1]>> \o Distinct(Tail(xs))

Reversed(xs) == [k \in 1..Len(xs) |-> xs[Len(xs) + 1 - k]]

\* The columns of a privilege in the order the server lists them.
ServerColumns(cols, ascending) ==
    IF ascending THEN sorted(Distinct(cols)) ELSE Reversed(sorted(Distinct(cols)))

BackQuoted(cols) == [k \in 1..Len(cols) |-> Backquote \o cols[k] \o Backquote]

\* A privilege as SHOW GRANTS prints it.
ServerPrivText(p, ascending) ==
    IF p.cols = <<>> THEN (IF str_upper(p.name) = "ALL" THEN "ALL PRIVILEGES"
                           ELSE str_upper(p.name))
    ELSE str_upper(p.name) \o " ("
            \o join(", ", BackQuoted(ServerColumns(p.cols, ascending))) \o ")"

\* The row SHOW GRANTS returns for a user who holds the privileges of it.
ServerRow(it, ascending) ==
    "GRANT "
      \o join(", ", [k \in 1..Len(it.privs) |-> ServerPrivText(it.privs[k], ascending)])
      \o " ON " \o ExpectedScope(it, "") \o " TO ^u^@^h^"

Elements(xs) == {xs[k] : k \in 1..Len(xs)}

\* The tokens privileges_get gives for that row.
CurrentSide(it, ascending) ==
    Elements(Tokens(privileges_get_text(<<ServerRow(it, ascending)>>, FALSE).value,
                    ExpectedScope(it, "")))

\* The column list of a token is sorted and holds no column twice.
SortedAndDistinct(token) ==
    In("(", token)
        => /\ sorted(Distinct(split(Slice(token, find(token, "(") + 1,
                                          rfind(token, ")") - 1), ", ")))
                = split(Slice(token, find(token, "(") + 1, rfind(token, ")") - 1), ", ")

\* A privilege string of one segment on a table, with a column privilege.
ColumnCall ==
    /\ Unpacked
    /\ call.arg.mode = ""
    /\ Len(call.arg.items) = 1
    /\ call.arg.items[1].tbl # "*"
    /\ \E j \in 1..Len(call.arg.items[1].privs) : call.arg.items[1].privs[j].cols # <<>>

\* C13: for the same column privileges on a scope privileges_unpack and
\* privileges_get give the same tokens, whatever order, spacing or repetition
\* the user wrote the columns with and whatever order the server lists them
\* in: on both sides every column list is sorted and holds no column twice.
C13_DesiredAndCurrentColumnTokensAgree ==
    ColumnCall
        => \A ascending \in BOOLEAN :
             /\ Elements(call.out.value[1].priv)
                  = CurrentSide(call.arg.items[1], ascending)
             /\ \A t \in Elements(call.out.value[1].priv)
                        \cup CurrentSide(call.arg.items[1], ascending) :
                    SortedAndDistinct(t)

\* A call of normalize_col_grants that has been made.
Normalized == call.fn = "normalize_col_grants" /\ call.out # NotCalled

\* C14: normalize_col_grants is idempotent, normalizing its own output gives
\* that output again, for every token list, those with a column privilege
\* split over several elements and those with several column privileges
\* included; and ['SELECT (B', 'A)'] is normalized to ['SELECT (A, B)'].
C14_NormalizeIsIdempotent ==
    Normalized
        => /\ normalize_col_grants(call.out.value) = call.out.value
           /\ call.arg.privileges = <<"SELECT (B", "A)">>
                => call.out.value = <<"SELECT (A, B)">>

--------------------------------------------------------------------------
(* The rows of SHOW GRANTS *)

\* A call of privileges_get that has been made, with maria_role set as the
\* callers set it: for a MariaDB role, whose rows name no host.
GotGrants ==
    /\ call.fn = "privileges_get"
    /\ call.out # NotCalled
    /\ call.arg.maria_role = (call.arg.rows[1].whose = "role")

RowsOfKind(kind) ==
    {k \in 1..Len(call.arg.rows) : call.arg.rows[k].kind = kind}

\* C15: privileges_get treats every row of SHOW GRANTS in one of three ways,
\* for users and for roles, on MySQL and on MariaDB: a privilege grant is
\* parsed into its scope and tokens, a role membership row is skipped, any
\* other row raises the parse error; no row is dropped silently.
C15_EveryRowIsParsedSkippedOrRaises ==
    GotGrants
        => IF RowsOfKind("other") # {}
           THEN call.out.status = "InvalidPrivsError"
           ELSE /\ call.out.status = "returned"
                /\ Keys(call.out.value)
                     = {call.arg.rows[k].scope : k \in RowsOfKind("privilege")}
                /\ \A k \in RowsOfKind("privilege") :
                     call.arg.rows[k].privs
                        \subseteq Elements(Tokens(call.out.value, call.arg.rows[k].scope))

--------------------------------------------------------------------------
(* Passwords *)

\* user_mod was called for a user with a password and without a plugin; a
\* password given as a hash is a hash.
PasswordOnly ==
    /\ RanUserMod
    /\ ~last.a.role
    /\ Truthy(last.a.password)
    /\ ~Truthy(last.a.plugin)
    /\ last.a.encrypted => is_hash(last.a.password)

\* The hash of the requested password, and the hash the server stored for
\* host h when the run began.
RequestedHash == IF last.a.encrypted THEN last.a.password ELSE HashOf(last.a.password)

StoredHash(h) == last.pre.acct[h].auth

PasswordOps == {"SET PASSWORD", "ALTER USER IDENTIFIED", "UPDATE mysql.user"}

\* A password-changing statement was sent for host h in the last run.
PasswordSent(h) ==
    \E i \in DOMAIN last.log : last.log[i].op \in PasswordOps /\ last.log[i].host = h

\* C16: for an existing user with a requested password and no plugin,
\* user_mod sends a password-changing statement if and only if the hash the
\* server stores differs from the hash of the requested password; when the
\* two are equal it sends none and password_changed is false.  The statement
\* is one a real run sends: check mode sends none and reports the change.
C16_PasswordStatementIffHashDiffers ==
    PasswordOnly
        => /\ \A h \in RunHosts :
                PasswordSent(h) <=> (RealRun /\ StoredHash(h) # RequestedHash)
           /\ (\A h \in RunHosts : StoredHash(h) = RequestedHash)
                => ~last.password_changed
           /\ (~RealRun /\ \E h \in RunHosts : StoredHash(h) # RequestedHash)
                => last.changed /\ last.password_changed /\ last.status = "returned"

\* A real run found another hash stored and replaced it.
C16_Witness ==
    /\ PasswordOnly /\ RealRun
    /\ StoredHash("localhost") = "*B"
    /\ RequestedHash = "*A"
    /\ PasswordSent("localhost")
    /\ server.acct["localhost"].auth = "*A"
    /\ last.password_changed

--------------------------------------------------------------------------
(* Resource limits *)

\* limit_resources has been called on a server without ALTER USER ... WITH.
LimitedUnsupported == limits.fn = "limit_resources" /\ ~limits.pre.supports

\* C17: when resource limits are asked for on a server that does not support
\* ALTER USER ... WITH, limit_resources ends in the fatal error of fail_json:
\* it does not return, changed = false included, and it sends nothing after
\* the version probe, so the server is as it was.
C17_UnsupportedServerIsFatal ==
    LimitedUnsupported
        => /\ limits.out.status = "failed"
           /\ limits.out.log = <<"SELECT VERSION()">>
           /\ limits.srv = limits.pre

\* Limits that differ from the user's were asked for on MariaDB 10.1.
C17_Witness ==
    /\ LimitedUnsupported
    /\ limits.pre.version_str = "10.1.48-MariaDB"
    /\ limits.pre.row.exists
    /\ limits.resource_limits = <<<<"MAX_USER_CONNECTIONS", "5">>>>
    /\ limits.pre.row.limit["MAX_USER_CONNECTIONS"] = 0
    /\ limits.out.status = "failed"


--------------------------------------------------------------------------
(* Failed statements *)

\* The server after the first n statements of the last run.
RECURSIVE ServerAfter(_)
ServerAfter(n) ==
    IF n = 0 THEN last.pre
    ELSE ServerApply(ServerAfter(n - 1), last.log[n]).srv

\* The server rejected the i-th statement of the last run.
RejectedAt(i) == ~ServerApply(ServerAfter(i - 1), last.log[i]).ok

RanUserOp == last.op \in {"user_add", "user_mod", "user_delete"}

\* C18: when the server rejects a statement of user_add, user_mod or
\* user_delete, that statement is the last one the operation sends and the
\* operation ends with the error: nothing is sent after it, neither the same
\* statement again nor another one in its place.
C18_FailedStatementStopsTheOperation ==
    RanUserOp
        => \A i \in DOMAIN last.log :
                RejectedAt(i) => (i = Len(last.log) /\ last.status = "error")

\* A rejected GRANT does stop user_mod.
C18_Witness ==
    /\ last.op = "user_mod"
    /\ Len(last.log) > 0
    /\ last.log[Len(last.log)].op = "GRANT"
    /\ RejectedAt(Len(last.log))
    /\ last.status = "error"


--------------------------------------------------------------------------
(* Roles *)

RanRole == roles.op \in {"add", "update"}

RoleSent(op) == {roles.log[i].user : i \in {j \in DOMAIN roles.log : roles.log[j].op = op}}

\* C19: with set_default_role_all off, Role.add and Role.update send no
\* SET DEFAULT ROLE ALL TO statement for any member; on MariaDB they send
\* none whatever the option is.
C19_NoDefaultRoleStatementUnlessAsked ==
    (RanRole /\ (~roles.a.set_default_role_all \/ roles.pre.mariadb))
        => RoleSent("SET DEFAULT ROLE ALL TO") = {}

RoleRealRun == RanRole /\ ~roles.a.check_mode

Requested == Listed(roles.a.members)

\* update_members ran in the last run: members were named and
\* detach_members was off.
Overwrote ==
    /\ RoleRealRun
    /\ roles.a.members # <<>>
    /\ ~roles.a.detach_members
    /\ ~roles.a.append_members

RealUpdate == RoleRealRun /\ roles.op = "update"

--------------------------------------------------------------------------
(* The admin of a role *)

\* Role.update was asked to set the admin of the existing MariaDB role.
AdminRequested ==
    roles.op = "update" /\ roles.pre.mariadb /\ roles.a.admin # NoAdmin

\* C21: on MariaDB a request to set the admin of an existing role raises
\* no error and leaves the server as it was; when the requested admin is not
\* the current one, no admin being recorded included, a warning is given.
C21_AdminOfExistingRoleOnlyWarns ==
    AdminRequested
        => /\ roles.error = ""
           /\ roles.srv = roles.pre
           /\ (roles.a.admin # roles.pre.admin) => roles.warnings # <<>>


--------------------------------------------------------------------------
(* Password hashes *)

Hashed == call.fn = "mysql_sha256_password_hash"

--------------------------------------------------------------------------
(* The grant option *)

HeldOption(h, s) == s \in last.pre.acct[h].wgo

DesiredTokens(s) == IF Has(Desired, s) THEN Tokens(Desired, s) ELSE {}

\* C23: user_mod sends REVOKE GRANT OPTION for a scope of a host only if the
\* account of that host holds the grant option on that scope and the desired
\* tokens of the scope do not include GRANT; the option held on another
\* scope or by another host's account causes none.
C23_GrantOptionRevokedOnlyWhereHeldAndUnwanted ==
    RanUserMod
        => \A h \in HostSet, s \in Scopes :
              IssuedAt({"REVOKE GRANT OPTION"}, h, s) # {}
                  => HeldOption(h, s) /\ "GRANT" \notin DesiredTokens(s)


--------------------------------------------------------------------------
(* The GRANT token in statements *)

\* The positions in the log of the statements of a kind for host h at scope s.
PlacesOf(op, h, s) ==
    {i \in DOMAIN last.log :
        /\ last.log[i].by \in {"privileges_grant", "privileges_revoke"}
        /\ last.log[i].op = op /\ last.log[i].host = h /\ last.log[i].scope = s}

\* The tokens user_mod sets out to revoke for h at s in the last run: the
\* whole current list of a scope absent from the desired map under REPLACE,
\* revoke_privs for a scope of both maps.
ToRevoke(h, s) ==
    IF ~Has(Current(h), s) THEN {}
    ELSE IF Has(Desired, s)
    THEN revoke_privs(Tokens(Desired, s), Tokens(Current(h), s), last.a)
    ELSE IF Replace(last.a) /\ last.a.user # "root" /\ "PROXY" \notin Tokens(Current(h), s)
    THEN Tokens(Current(h), s)
    ELSE {}

\* The last run of user_mod reconciled privileges to the end, for real.
Reconciled ==
    /\ RanUserMod
    /\ RealRun
    /\ last.a.priv_given
    /\ last.status = "returned"

\* C24: no statement carries GRANT in its privilege list; a GRANT statement
\* has WITH GRANT OPTION exactly when its tokens include GRANT (part of
\* GrantedIs in the claims above); and in a run that completes, whenever
\* GRANT is among the tokens to revoke on a scope, REVOKE GRANT OPTION is sent
\* for that scope before the REVOKE of the other tokens.
C24_GrantTokenIsTranslated ==
    /\ \A st \in PrivilegeLog : "GRANT" \notin st.privs
    /\ Reconciled
        => \A h \in RunHosts, s \in Scopes :
              "GRANT" \in ToRevoke(h, s)
                  => /\ PlacesOf("REVOKE GRANT OPTION", h, s) # {}
                     /\ \A i \in PlacesOf("REVOKE GRANT OPTION", h, s),
                           j \in PlacesOf("REVOKE", h, s) : i < j


\* The GRANT and REVOKE statements of the last run.
GrantsSent == {st \in PrivilegeLog : st.op = "GRANT"}

RevokesSent == {st \in PrivilegeLog : st.op = "REVOKE"}

\* C25: user_mod and user_add send no GRANT statement with an empty
\* privilege list: when the tokens to grant on a scope are GRANT alone the
\* statement is GRANT USAGE ON the scope WITH GRANT OPTION.
C25_GrantAloneIsCarriedByUsage ==
    last.op \in {"user_mod", "user_add"}
        => \A st \in GrantsSent : st.privs # {}

\* C27: every REVOKE statement of privileges_revoke other than REVOKE GRANT
\* OPTION names at least one privilege.
C27_RevokeNamesAPrivilege ==
    last.op \in {"user_mod", "user_add"}
        => \A st \in RevokesSent : st.privs # {}


--------------------------------------------------------------------------
(* The segments of a privilege string *)

\* What privileges_unpack gives for the segment alone.
Alone(it, mode) == privileges_unpack_text(ItemText(it), mode, FALSE)

\* C26: decoding a string of several segments gives every scope the tokens
\* that decoding its segment alone gives: a later segment, with or without a
\* column list, adds nothing to an earlier scope's list and alters nothing
\* in it.
C26_SegmentsAreDecodedIndependently ==
    Unpacked
        => \A i \in 1..Len(call.arg.items) :
             LastOfScope(call.arg.items, i)
                => Tokens(call.out.value,
                          ExpectedScope(call.arg.items[i], call.arg.mode))
                     = Tokens(Alone(call.arg.items[i], call.arg.mode),
                              ExpectedScope(call.arg.items[i], call.arg.mode))


--------------------------------------------------------------------------
(* A second run *)

\* The last run was a real REPLACE run of user_mod that reconciled
\* privileges and returned.
ReplacedForReal == Reconciled /\ Replace(last.a)

\* The run of user_mod with the same arguments against the server as the
\* last run left it.
SecondRun == user_mod(server, last.a)

\* C28: after a real REPLACE run of user_mod that completes without error, a
\* second run with the same arguments against the resulting server sends no
\* mutating statement and returns changed = false, for users and for roles,
\* on MySQL and on MariaDB.
C28_SecondRunChangesNothing ==
    ReplacedForReal
        => /\ SecondRun.status = "returned"
           /\ ~SecondRun.changed
           /\ \A i \in DOMAIN SecondRun.log : ~IsMutating(SecondRun.log[i])


--------------------------------------------------------------------------
(* The order of the statements of one run *)

\* The positions in the log of the statements that set the TLS requirements:
\* ALTER USER ... REQUIRE, or on an old server the GRANT user_mod sends itself.
TlsPlaces ==
    {i \in DOMAIN last.log :
        /\ last.log[i].by = ""
        /\ last.log[i].op \in {"ALTER USER REQUIRE", "GRANT"}}

\* The positions of the statements privileges_grant and privileges_revoke sent.
PrivilegePlaces ==
    {i \in DOMAIN last.log :
        /\ last.log[i].by \in {"privileges_grant", "privileges_revoke"}
        /\ last.log[i].op \in PrivilegeOps}

\* C29: one run of user_mod on an existing user reconciles password, plugin,
\* TLS requirements, resource limits and privileges in that order; in
\* particular every statement that sets TLS requirements is sent before any
\* privilege GRANT or REVOKE of the same run.
C29_TlsBeforePrivileges ==
    RanUserMod => \A i \in TlsPlaces : \A j \in PrivilegePlaces : i < j

\* The positions of the statements that set a password or a plugin.
IdentifiedPlaces ==
    {i \in DOMAIN last.log :
        /\ last.log[i].by = ""
        /\ last.log[i].op \in {"ALTER USER IDENTIFIED", "SET PASSWORD", "UPDATE mysql.user"}}

SameHost(i, j) == last.log[i].host = last.log[j].host

\* C29, as the code has it: for each host, the statements that set the
\* password or the plugin come first, then the privilege GRANT and REVOKE
\* statements, and the statement that sets the TLS requirements comes last.
C29_PrivilegesBeforeTls ==
    RanUserMod
        => /\ \A i \in PrivilegePlaces : \A j \in TlsPlaces : SameHost(i, j) => i < j
           /\ \A i \in IdentifiedPlaces : \A j \in PrivilegePlaces \cup TlsPlaces :
                    SameHost(i, j) => i < j

\* A run that sent privilege statements and a TLS statement for one host.
C29_Witness ==
    /\ RanUserMod
    /\ last.status = "returned"
    /\ \E i \in PrivilegePlaces : \E j \in TlsPlaces : SameHost(i, j)


\* The positions of the REVOKE and REVOKE GRANT OPTION statements for host h
\* at scope s.
RevokePlaces(h, s) == PlacesOf("REVOKE", h, s) \cup PlacesOf("REVOKE GRANT OPTION", h, s)

\* C30: within one run of user_mod, for each scope every REVOKE statement,
\* REVOKE GRANT OPTION included, is executed before the GRANT statement for
\* that scope, so nothing the run grants on a scope is removed by a later
\* statement of the same run: when the run returns, the account holds the
\* privileges and the grant option its GRANT statements named.
C30_RevokesBeforeTheGrant ==
    RanUserMod
        => \A h \in HostSet : \A s \in Scopes :
              /\ \A i \in RevokePlaces(h, s) : \A j \in PlacesOf("GRANT", h, s) : i < j
              /\ last.status = "returned"
                    => \A st \in IssuedAt({"GRANT"}, h, s) :
                          /\ st.wgo => s \in server.acct[h].wgo
                          /\ st.privs \ {"USAGE", "ALL", "ALL PRIVILEGES"}
                                \subseteq server.acct[h].priv[s]

\* A run that revoked and granted on one scope.
C30_Witness ==
    /\ RanUserMod
    /\ last.status = "returned"
    /\ \E h \in HostSet : \E s \in Scopes :
          /\ PlacesOf("REVOKE GRANT OPTION", h, s) # {}
          /\ PlacesOf("REVOKE", h, s) # {}
          /\ PlacesOf("GRANT", h, s) # {}

====
